---- MODULE Spec2Model ----
(***************************************************************************)
(* A model of the tech-blog generator (src/app.py): the session store      *)
(* (progress_history, progress_status, result_store), the request          *)
(* handlers, the background workers process_project and                    *)
(* process_final_blog_in_chapters, and the continuation loop               *)
(* get_full_blog.                                                          *)
(*                                                                         *)
(* Texts are sequences of tokens.  Each token stands for one concrete      *)
(* string, and a text for the concatenation of its tokens:                 *)
(*    "<"  "<"          ">"  ">"         "C"  "CONTINUE"                    *)
(*    "c"  "continue" (the sentinel word in any other letter case)         *)
(*    "F"  "```"        "M"  "```markdown"   "J"  "```json"                *)
(*    " "  a space      "\n" a newline       "a"  an ordinary letter       *)
(* The regular expressions of the source are modelled by what they do on   *)
(* such texts.                                                             *)
(***************************************************************************)
EXTENDS Integers, Sequences, FiniteSets, TLC

(***************************************************************************)
(* Bounds of the model.                                                    *)
(***************************************************************************)
\* the largest max_iterations a caller of get_full_blog passes
MaxIter == 3

(***************************************************************************)
(* Text primitives.                                                        *)
(***************************************************************************)
IsWs(t) == t \in {" ", "\n"}

Last(s) == s[Len(s)]

Front(s) == SubSeq(s, 1, Len(s) - 1)

RECURSIVE rstrip(_)
\* str.rstrip(): trailing whitespace removed
rstrip(s) == IF s # <<>> /\ IsWs(Last(s)) THEN rstrip(Front(s)) ELSE s

RECURSIVE lstrip(_)
\* the leading half of str.strip()
lstrip(s) == IF s # <<>> /\ IsWs(Head(s)) THEN lstrip(Tail(s)) ELSE s

\* str.strip()
strip(s) == lstrip(rstrip(s))

RECURSIVE RunBack(_, _, _)
\* the number of consecutive tokens tok of s that end at index e
RunBack(s, e, tok) ==
    IF e >= 1 /\ s[e] = tok THEN 1 + RunBack(s, e - 1, tok) ELSE 0

RECURSIVE RunFwd(_, _, _)
\* the number of consecutive tokens tok of s that start at index i
RunFwd(s, i, tok) ==
    IF i <= Len(s) /\ s[i] = tok THEN 1 + RunFwd(s, i + 1, tok) ELSE 0

Min(a, b) == IF a < b THEN a ELSE b

\* CONTINUE, under re.IGNORECASE (ic) in any letter case
IsWord(t, ic) == t = "C" \/ (ic /\ t = "c")

(***************************************************************************)
(* The two trailing-sentinel patterns.  fences = TRUE is marker_pattern of *)
(* get_full_blog, <{1,4}CONTINUE>{1,4}(?:\s*```)?(?:\n```)?\s*$ ;          *)
(* fences = FALSE is continue_pattern of the chapter loop,                 *)
(* <{1,4}CONTINUE>{1,4}\s*$ .  Both are compiled with re.IGNORECASE.       *)
(***************************************************************************)
\* the index of the last ">" of a trailing sentinel, 0 when the tail of s
\* after its last ">" is not one the pattern allows
MarkerEnd(s, fences) ==
    LET r0 == rstrip(s)
        r1 == rstrip(Front(r0))
        r2 == rstrip(SubSeq(r0, 1, Len(r0) - 3))
    IN  IF r0 # <<>> /\ Last(r0) = ">" THEN Len(r0)
        ELSE IF fences /\ r0 # <<>> /\ Last(r0) = "F"
        THEN IF r1 # <<>> /\ Last(r1) = ">" THEN Len(r1)
             ELSE IF /\ Len(r0) >= 3
                     /\ r0[Len(r0) - 1] = "\n"
                     /\ r0[Len(r0) - 2] = "F"
                     /\ r2 # <<>>
                     /\ Last(r2) = ">"
                  THEN Len(r2)
                  ELSE 0
        ELSE 0

\* where pattern.search(s) matches: the index of the match's first "<", or 0
MarkerStart(s, fences) ==
    LET e == MarkerEnd(s, fences)
        m == RunBack(s, e, ">")
        w == e - m
        n == RunBack(s, w - 1, "<")
    IN  IF e = 0 \/ m > 4 \/ w < 1 THEN 0
        ELSE IF ~IsWord(s[w], TRUE) \/ n = 0 THEN 0
        ELSE w - Min(n, 4)

\* pattern.search(s) is not None
HasMarker(s, fences) == MarkerStart(s, fences) # 0

StripMarkerKeepsText(s, fences) == s

\* pattern.sub("", s)
StripMarker(s, fences) ==
    IF HasMarker(s, fences) THEN SubSeq(s, 1, MarkerStart(s, fences) - 1) ELSE s

\* the length of the match of <{1,4}CONTINUE>{1,4} that starts at index i of
\* s, 0 when there is none; ic is re.IGNORECASE
SentinelAt(s, i, ic) ==
    LET k == RunFwd(s, i, "<")
        m == RunFwd(s, i + k + 1, ">")
    IN  IF /\ k >= 1
           /\ k <= 4
           /\ i + k <= Len(s)
           /\ IsWord(s[i + k], ic)
           /\ m >= 1
        THEN k + 1 + Min(m, 4)
        ELSE 0

RECURSIVE SubAllFrom(_, _, _)
SubAllFrom(s, i, ic) ==
    IF i > Len(s) THEN <<>>
    ELSE IF SentinelAt(s, i, ic) > 0
         THEN SubAllFrom(s, i + SentinelAt(s, i, ic), ic)
         ELSE <<s[i]>> \o SubAllFrom(s, i + 1, ic)

\* the post-processing of the article: re.sub(r"<{1,4}CONTINUE>{1,4}", "", s),
\* compiled without re.IGNORECASE
SubAllSentinels(s) == SubAllFrom(s, 1, FALSE)

\* text.strip() wrapped whole in opener ... ``` : the inner text, else text
RemoveOuterFence(text, opener) ==
    LET trimmed == strip(text)
    IN  IF Len(trimmed) >= 2 /\ Head(trimmed) = opener /\ Last(trimmed) = "F"
        THEN strip(SubSeq(trimmed, 2, Len(trimmed) - 1))
        ELSE text

remove_outer_markdown_fence(text) == RemoveOuterFence(text, "M")

remove_outer_json_fence(text) == RemoveOuterFence(text, "J")

\* a sentinel in any form the detectors recognise occurs somewhere in s
ContainsSentinel(s) == \E i \in 1..Len(s) : SentinelAt(s, i, TRUE) > 0

(***************************************************************************)
(* The generations the completion client returns to get_full_blog.         *)
(***************************************************************************)
Chunks ==
    { <<"a">>,                                   \* plain text
      <<"a", "<", "C", ">">>,                    \* text, then the sentinel
      <<"a", "<", "c", ">", "\n", "F">>,         \* lower case, then a closing fence
      <<"<", "C", ">", "a">>,                    \* the sentinel mid-text
      <<"<", "C", ">", "<", "C", ">">>,          \* the sentinel twice
      <<"F">>,                                   \* a closing fence alone
      <<"<", "<", "<", "<", "<", "C", ">">>,     \* five opening brackets
      <<"C", ">">> }                             \* the sentinel without its "<"

(***************************************************************************)
(* State.                                                                  *)
(***************************************************************************)
VARIABLES
    progress_history,  \* dict: progress_id -> the messages appended, in order
    progress_status,   \* dict: progress_id -> the latest message
    result_store,      \* dict: key string -> stored value
    session,           \* per browser, the Flask session cookie (a dict)
    uuids,             \* how many identifiers uuid.uuid4() has handed out
    projects,          \* the process_project threads started, in start order
    drafts,            \* the process_final_blog_in_chapters threads started
    regens,            \* generate_final_blog requests inside process_outline_regeneration
    was_reset,         \* the identifiers reset has been handled for
    gfb,               \* one activation of get_full_blog
    writers,           \* threads inside update_progress, bytecode by bytecode
    streams            \* the progress_stream responses opened, in opening order

vars == <<progress_history, progress_status, result_store, session, uuids,
          projects, drafts, regens, was_reset, gfb, writers, streams>>

app_vars == <<progress_history, progress_status, result_store, session, uuids,
              projects, drafts, regens, was_reset, writers, streams>>

(***************************************************************************)
(* Python dicts.                                                           *)
(***************************************************************************)
EmptyDict == <<>>

Put(d, k, v) == [x \in DOMAIN d \cup {k} |-> IF x = k THEN v ELSE d[x]]

Pop(d, k) == [x \in DOMAIN d \ {k} |-> d[x]]

Get(d, k, default) == IF k \in DOMAIN d THEN d[k] ELSE default

(***************************************************************************)
(* Session identifiers and store keys.  uuid.uuid4() hands out strings of  *)
(* one fixed length, never the same twice; the n-th is IdName(n).  The     *)
(* store keys of a session are its identifier followed by a suffix.        *)
(***************************************************************************)
IdNameFixed(n) == "s1"

IdName(n) == "s" \o ToString(n)

KeyWithoutId(progress_id, suffix) == suffix

\* progress_id + suffix, the key of one artifact of one session
Key(progress_id, suffix) == progress_id \o suffix

Suffixes == {"", "_outline", "_tree", "_roles", "_analysis", "_files"}

\* the suffixes of the four corpus artifacts
CorpusSuffixes == {"_tree", "_roles", "_analysis", "_files"}

(***************************************************************************)
(* Progress messages, as <<kind, argument>>.                               *)
(***************************************************************************)
Msg(kind) == <<kind, "">>

MsgArg(kind, arg) == <<kind, arg>>

\* update_progress(progress_id, message): the two dicts afterwards
HistoryAfter(h, progress_id, message) ==
    Put(h, progress_id, Get(h, progress_id, <<>>) \o <<message>>)

StatusAfter(st, progress_id, message) == Put(st, progress_id, message)

RECURSIVE HistoryAfterAll(_, _, _)
\* several update_progress calls in a row
HistoryAfterAll(h, progress_id, messages) ==
    IF messages = <<>> THEN h
    ELSE HistoryAfterAll(HistoryAfter(h, progress_id, Head(messages)),
                         progress_id, Tail(messages))

update_progress(progress_id, messages) ==
    /\ progress_history' = HistoryAfterAll(progress_history, progress_id, messages)
    /\ progress_status' =
           IF messages = <<>> THEN progress_status
           ELSE StatusAfter(progress_status, progress_id, Last(messages))

(***************************************************************************)
(* Outlines.  An outline text holds ordinary tokens and JSON documents;    *)
(* each document is one token:                                             *)
(*    "[]"        a JSON array (valid JSON, not an object)                 *)
(*    "{}"        an object without a "chapters" member                    *)
(*    "{ch:[]}"   an object whose "chapters" is the empty list             *)
(*    "{ch:5}"    an object whose "chapters" is a number                   *)
(*    "{ch:[n]}"  an object whose "chapters" lists n chapters              *)
(***************************************************************************)
\* the longest chapters list of an outline
MaxChapters == 2

ChapterDoc(n) == "{ch:[" \o ToString(n) \o "]}"

ChapterDocs == {ChapterDoc(n) : n \in 1..MaxChapters}

JsonDocs == {"[]", "{}", "{ch:[]}", "{ch:5}"} \cup ChapterDocs

\* json.loads(text): the document, or "error" when it raises
json_loads(text) ==
    LET t == strip(text)
    IN  IF Len(t) = 1 /\ t[1] \in JsonDocs THEN t[1] ELSE "error"

\* the document is a JSON object (a Python dict, which has .get)
IsObject(doc) == doc \in {"{}", "{ch:[]}", "{ch:5}"} \cup ChapterDocs

\* bool(outline_data.get("chapters", []))
ChaptersTruthy(doc) == doc \in {"{ch:5}"} \cup ChapterDocs

\* enumerate(chapters) can iterate
ChaptersIterable(doc) == doc \in ChapterDocs \cup {"{}", "{ch:[]}"}

\* len(chapters) of an iterable chapters value
NumChapters(doc) ==
    IF doc \in ChapterDocs
    THEN CHOOSE n \in 1..MaxChapters : ChapterDoc(n) = doc
    ELSE 0

\* the outline texts a human may submit or the completion client may return
OutlineTexts ==
    {<<d>> : d \in JsonDocs}
    \cup {<<"J", "\n", ChapterDoc(1), "\n", "F">>, <<"a">>, <<>>}

(***************************************************************************)
(* The chunks the completion client returns to the drafting worker.        *)
(***************************************************************************)
DraftChunks ==
    { <<"a">>,                                   \* plain text
      <<"a", "<", "C", ">">>,                    \* text, then the sentinel
      <<"<", "c", ">">>,                         \* the sentinel alone, lower case
      <<"<", "c", ">", "a">>,                    \* a lower-case sentinel mid-text
      <<"<", "C", ">", "F">>,                    \* the sentinel, then a closing fence
      <<"M", "\n", "a", "<", "C", ">", "\n", "F">>,  \* wrapped whole in a fence
      <<"<", "<", "<", "<", "<", "C", ">">> }    \* five opening brackets

\* the chunks of the whole-application specification
SysChunks == { <<"a">>, <<"a", "<", "C", ">">> }

\* every chunk is the bare sentinel
SentinelChunks == { <<"<", "C", ">">> }

(***************************************************************************)
(* The initial state of the application: empty dicts, no thread.           *)
(***************************************************************************)
Browsers == {"b1", "b2"}

Init ==
    /\ progress_history = EmptyDict
    /\ progress_status = EmptyDict
    /\ result_store = EmptyDict
    /\ session = [b \in Browsers |-> EmptyDict]
    /\ uuids = 0
    /\ projects = <<>>
    /\ drafts = <<>>
    /\ regens = <<>>
    /\ was_reset = {}
    /\ gfb = [pc |-> "idle"]
    /\ writers = <<>>
    /\ streams = <<>>

(***************************************************************************)
(* process_final_blog_in_chapters (src/app.py 479-565), one thread per     *)
(* start.  A thread is at                                                  *)
(*    "start"    before update_progress("Step 6 ...")                      *)
(*    "load"     before the reads of result_store and json.loads           *)
(*    "call"     inside llm.invoke for chapter idx                         *)
(*    "put"      before result_store[progress_id] = full_blog              *)
(*    "final"    before the closing update_progress                        *)
(*    "done"     returned;  "crashed"  ended by an uncaught exception      *)
(* calls is the record of the completion calls: the chapter, the corpus    *)
(* and the previous_text the prompt was given, and the response.           *)
(* started_by is the handler that started the thread.                      *)
(***************************************************************************)
NewDraft(progress_id, started_by) ==
    [pid |-> progress_id, started_by |-> started_by, pc |-> "start",
     blog_outline |-> <<>>, doc |-> "error", corpus |-> <<>>,
     idx |-> 0, full_blog |-> <<>>, chapter_text_acc |-> <<>>, calls |-> <<>>,
     raised |-> FALSE]

\* the four artifacts as the worker reads them, each "" when not stored
ReadCorpus(progress_id) ==
    [x \in CorpusSuffixes |-> Get(result_store, Key(progress_id, x), <<>>)]

DraftStart(t) ==
    /\ drafts[t].pc = "start"
    /\ update_progress(drafts[t].pid, <<Msg("Step 6")>>)
    /\ drafts' = [drafts EXCEPT ![t].pc = "load"]
    /\ UNCHANGED <<result_store, session, uuids, projects, regens, was_reset, gfb, writers, streams>>

ReadOutlineOrSample(progress_id) ==
    Get(result_store, Key(progress_id, "_outline"), <<ChapterDoc(1)>>)

\* blog_outline = result_store.get(progress_id + "_outline", "")
ReadOutline(progress_id) == Get(result_store, Key(progress_id, "_outline"), <<>>)

\* json.loads raises: the error is logged and the worker returns
DraftParseFails(t) ==
    LET blog_outline == ReadOutline(drafts[t].pid)
    IN  /\ drafts[t].pc = "load"
        /\ json_loads(blog_outline) = "error"
        /\ update_progress(drafts[t].pid, <<Msg("outline JSON parse failed")>>)
        /\ drafts' = [drafts EXCEPT ![t].pc = "done", ![t].blog_outline = blog_outline]
        /\ UNCHANGED <<result_store, session, uuids, projects, regens, was_reset, gfb, writers, streams>>

\* outline_data has no .get (AttributeError), or chapters cannot be
\* enumerated (TypeError): nothing catches it and the thread ends
DraftLoadCrashes(t) ==
    LET blog_outline == ReadOutline(drafts[t].pid)
        doc == json_loads(blog_outline)
    IN  /\ drafts[t].pc = "load"
        /\ doc # "error"
        /\ \/ ~IsObject(doc)
           \/ IsObject(doc) /\ ChaptersTruthy(doc) /\ ~ChaptersIterable(doc)
        /\ drafts' = [drafts EXCEPT ![t].pc = "crashed", ![t].doc = doc,
                                    ![t].blog_outline = blog_outline]
        /\ UNCHANGED <<progress_history, progress_status, result_store, session,
                       uuids, projects, regens, was_reset, gfb, writers, streams>>

\* if not chapters: the error is logged and the worker returns
DraftNoChapters(t) ==
    LET blog_outline == ReadOutline(drafts[t].pid)
        doc == json_loads(blog_outline)
    IN  /\ drafts[t].pc = "load"
        /\ doc # "error"
        /\ IsObject(doc)
        /\ ~ChaptersTruthy(doc)
        /\ update_progress(drafts[t].pid, <<Msg("no chapters in outline")>>)
        /\ drafts' = [drafts EXCEPT ![t].pc = "done", ![t].doc = doc,
                                    ![t].blog_outline = blog_outline]
        /\ UNCHANGED <<result_store, session, uuids, projects, regens, was_reset, gfb, writers, streams>>

\* the outline has chapters: the chapter loop is entered at chapter 1
DraftLoaded(t) ==
    LET blog_outline == ReadOutline(drafts[t].pid)
        doc == json_loads(blog_outline)
    IN  /\ drafts[t].pc = "load"
        /\ doc # "error"
        /\ IsObject(doc)
        /\ ChaptersTruthy(doc)
        /\ ChaptersIterable(doc)
        /\ update_progress(drafts[t].pid, <<MsgArg("Chapter generating", "1")>>)
        /\ drafts' = [drafts EXCEPT ![t].pc = "call", ![t].doc = doc,
                                    ![t].blog_outline = blog_outline,
                                    ![t].corpus = ReadCorpus(drafts[t].pid),
                                    ![t].idx = 1,
                                    ![t].full_blog = <<>>,
                                    ![t].chapter_text_acc = <<>>]
        /\ UNCHANGED <<result_store, session, uuids, projects, regens, was_reset, gfb, writers, streams>>

\* one llm.invoke of the chapter loop: what the prompt held, what came back
Call(d, response) ==
    [idx |-> d.idx, corpus |-> d.corpus, previous_text |-> d.full_blog,
     response |-> response]

\* chapter_text_acc += "\n" + remove_outer_markdown_fence(response)
Accumulate(chapter_text_acc, response) ==
    chapter_text_acc \o <<"\n">> \o remove_outer_markdown_fence(response)

\* continue_pattern.sub("", chapter_text_acc).rstrip()
Truncate(chapter_text_acc) == rstrip(StripMarker(chapter_text_acc, FALSE))

PrependChapter(full_blog, chapter_text_acc) ==
    chapter_text_acc \o <<"\n">> \o full_blog

\* full_blog += "\n" + chapter_text_acc
AppendChapter(full_blog, chapter_text_acc) ==
    full_blog \o <<"\n">> \o chapter_text_acc

\* the post-processing before the article is stored
PostProcess(full_blog) == remove_outer_markdown_fence(SubAllSentinels(full_blog))

\* llm.invoke returns a chunk that leaves the sentinel at the end of the
\* chapter's text: the sentinel is cut and the same chapter is asked again
DraftContinue(t, chunks, max_calls) ==
    /\ drafts[t].pc = "call"
    /\ Len(drafts[t].calls) < max_calls
    /\ \E response \in chunks :
        LET acc == Accumulate(drafts[t].chapter_text_acc, response)
        IN  /\ HasMarker(acc, FALSE)
            /\ update_progress(drafts[t].pid, <<Msg("split output detected")>>)
            /\ drafts' = [drafts EXCEPT
                   ![t].chapter_text_acc = Truncate(acc),
                   ![t].calls = @ \o <<Call(drafts[t], response)>>]
    /\ UNCHANGED <<result_store, session, uuids, projects, regens, was_reset, gfb, writers, streams>>

\* llm.invoke returns a chunk that completes the chapter: the chapter is
\* appended, and the next chapter is started or the loop is left
DraftChapterDone(t, chunks, max_calls) ==
    /\ drafts[t].pc = "call"
    /\ Len(drafts[t].calls) < max_calls
    /\ \E response \in chunks :
        LET acc == Accumulate(drafts[t].chapter_text_acc, response)
            idx == drafts[t].idx
            more == idx < NumChapters(drafts[t].doc)
        IN  /\ ~HasMarker(acc, FALSE)
            /\ update_progress(drafts[t].pid,
                   <<MsgArg("Chapter done", ToString(idx))>>
                   \o (IF more
                       THEN <<MsgArg("Chapter generating", ToString(idx + 1))>>
                       ELSE <<>>))
            /\ drafts' = [drafts EXCEPT
                   ![t].full_blog = AppendChapter(@, acc),
                   ![t].chapter_text_acc = IF more THEN <<>> ELSE acc,
                   ![t].idx = IF more THEN idx + 1 ELSE idx,
                   ![t].pc = IF more THEN "call" ELSE "put",
                   ![t].calls = @ \o <<Call(drafts[t], response)>>]
    /\ UNCHANGED <<result_store, session, uuids, projects, regens, was_reset, gfb, writers, streams>>

\* llm.invoke raises: nothing catches it and the thread ends
DraftCallRaises(t) ==
    /\ drafts[t].pc = "call"
    /\ drafts' = [drafts EXCEPT ![t].pc = "crashed", ![t].raised = TRUE]
    /\ UNCHANGED <<progress_history, progress_status, result_store, session,
                   uuids, projects, regens, was_reset, gfb, writers, streams>>

\* result_store[progress_id] = full_blog, post-processed
DraftPutAppends(t) ==
    /\ drafts[t].pc = "put"
    /\ result_store' = Put(result_store, Key(drafts[t].pid, ""),
                           Get(result_store, Key(drafts[t].pid, ""), <<>>)
                               \o PostProcess(drafts[t].full_blog))
    /\ drafts' = [drafts EXCEPT ![t].pc = "final"]
    /\ UNCHANGED <<progress_history, progress_status, session, uuids, projects,
                   regens, was_reset, gfb, writers, streams>>

DraftPut(t) ==
    /\ drafts[t].pc = "put"
    /\ result_store' = Put(result_store, Key(drafts[t].pid, ""),
                           PostProcess(drafts[t].full_blog))
    /\ drafts' = [drafts EXCEPT ![t].pc = "final"]
    /\ UNCHANGED <<progress_history, progress_status, session, uuids, projects,
                   regens, was_reset, gfb, writers, streams>>

DraftFinal(t) ==
    /\ drafts[t].pc = "final"
    /\ update_progress(drafts[t].pid, <<Msg("final blog completed")>>)
    /\ drafts' = [drafts EXCEPT ![t].pc = "done"]
    /\ UNCHANGED <<result_store, session, uuids, projects, regens, was_reset, gfb, writers, streams>>

(***************************************************************************)
(* Project trees.  A file is its path relative to the project root, its    *)
(* extension, its size in bytes and its decoded length in characters; a    *)
(* tree is its files in os.walk order.                                     *)
(***************************************************************************)
\* src/const/const.py: a sample of the 51 extensions of the tuple
DISALLOWED_EXTENSIONS == {".lock", ".png", ".zip", ".exe"}

\* 20 * 1024 * 1024
MAX_FILE_SIZE == 20971520

MAX_FILE_LENGTH == 20000

\* the most files of a project tree
MaxFiles == 3

FileShapes ==
    { [ext |-> ".py", size |-> 100, length |-> 100],
      [ext |-> ".png", size |-> 100, length |-> 100],
      [ext |-> ".py", size |-> MAX_FILE_LENGTH + 1, length |-> MAX_FILE_LENGTH + 1],
      [ext |-> ".py", size |-> MAX_FILE_SIZE + 1, length |-> 100] }

FileNamed(n, shape) ==
    [path |-> "f" \o ToString(n) \o shape.ext, ext |-> shape.ext,
     size |-> shape.size, length |-> shape.length]

RECURSIVE TreesOf(_)
\* the trees of exactly n files, the k-th named "f<k>"
TreesOf(n) ==
    IF n = 0 THEN {<<>>}
    ELSE {Append(tr, FileNamed(n, sh)) : tr \in TreesOf(n - 1), sh \in FileShapes}

ProjectTrees == UNION {TreesOf(n) : n \in 1..MaxFiles}

\* the tree of the whole-application specification
SysTrees == { <<FileNamed(1, [ext |-> ".py", size |-> 100, length |-> 100])>> }

\* file.lower().endswith(DISALLOWED_EXTENSIONS)
Disallowed(file) == file.ext \in DISALLOWED_EXTENSIONS

RECURSIVE AnalysedFiles(_)
\* the files process_project analyses (src/app.py 351-357), in walk order
AnalysedFiles(dir) ==
    IF dir = <<>> THEN <<>>
    ELSE (IF Disallowed(Head(dir)) THEN <<>> ELSE <<Head(dir)>>) \o AnalysedFiles(Tail(dir))

ReadableAnyLength(file) ==
    /\ ~Disallowed(file)
    /\ ~(file.size > MAX_FILE_SIZE)

\* the files read_project_files keeps
Readable(file) ==
    /\ ~Disallowed(file)
    /\ ~(file.size > MAX_FILE_SIZE)
    /\ ~(file.length > MAX_FILE_LENGTH)

RECURSIVE read_project_files(_)
\* read_project_files (src/app.py 152-198): one section per file kept
read_project_files(dir) ==
    IF dir = <<>> THEN <<>>
    ELSE (IF Readable(Head(dir)) THEN <<<<"### File", Head(dir).path>>>> ELSE <<>>)
             \o read_project_files(Tail(dir))

\* get_directory_tree (src/app.py 201-209): one line per file
get_directory_tree(dir) == [k \in DOMAIN dir |-> dir[k].path]

(***************************************************************************)
(* process_project (src/app.py 307-409), one thread per accepted           *)
(* submission.  A thread is at                                             *)
(*    "start"         before update_progress("Step 1 ...") and listdir     *)
(*    "clone"         inside git clone                                     *)
(*    "tree"          before Step 2                                        *)
(*    "roles"         inside the directory-role completion call            *)
(*    "file"          before the progress line of file i                   *)
(*    "detail"        inside the read and completion call of file i        *)
(*    "wrap"          after the file loop, before read_project_files       *)
(*    "put_tree" "put_roles" "put_analysis" "put_files"  before each put   *)
(*    "outline"       before update_progress of generate_outline_common    *)
(*    "outline_call"  inside the outline completion call                   *)
(*    "outline_put"   before result_store[progress_id + "_outline"] = ...  *)
(*    "outline_done"  before the closing update_progress                   *)
(*    "done"          returned                                             *)
(* outcomes records, per analysed file, whether its analysis succeeded.    *)
(***************************************************************************)
NewProject(progress_id, github_url, dir) ==
    [pid |-> progress_id, pc |-> "start", github_url |-> github_url, dir |-> dir,
     directory_tree |-> <<>>, file_roles |-> <<>>, all_files |-> <<>>, i |-> 0,
     detailed_code_analysis |-> <<>>, project_files_content |-> <<>>,
     blog_outline |-> <<>>, outcomes |-> <<>>, raised |-> FALSE]

ProjectFrame == UNCHANGED <<result_store, session, uuids, drafts, regens, was_reset, gfb, writers, streams>>

\* Step 1 with an uploaded folder
ProjectStartUploaded(t) ==
    /\ projects[t].pc = "start"
    /\ projects[t].dir # <<>>
    /\ update_progress(projects[t].pid, <<Msg("Step 1"), Msg("folder upload obtained")>>)
    /\ projects' = [projects EXCEPT ![t].pc = "tree"]
    /\ ProjectFrame

\* Step 1 with an empty folder: git clone is called
ProjectStartClone(t) ==
    /\ projects[t].pc = "start"
    /\ projects[t].dir = <<>>
    /\ update_progress(projects[t].pid, <<Msg("Step 1")>>)
    /\ projects' = [projects EXCEPT ![t].pc = "clone"]
    /\ ProjectFrame

\* git clone succeeds and fills the folder; an empty URL cannot be cloned
ProjectCloned(t, trees) ==
    /\ projects[t].pc = "clone"
    /\ projects[t].github_url # ""
    /\ update_progress(projects[t].pid, <<Msg("clone succeeded")>>)
    /\ \E dir \in trees : projects' = [projects EXCEPT ![t].pc = "tree", ![t].dir = dir]
    /\ ProjectFrame

\* git clone fails (CalledProcessError): logged, and the worker returns
ProjectCloneFails(t) ==
    /\ projects[t].pc = "clone"
    /\ update_progress(projects[t].pid, <<Msg("clone failed")>>)
    /\ projects' = [projects EXCEPT ![t].pc = "done"]
    /\ ProjectFrame

\* Step 2, get_directory_tree, and the start of Step 3
ProjectTree(t) ==
    /\ projects[t].pc = "tree"
    /\ update_progress(projects[t].pid,
           <<Msg("Step 2"), Msg("directory tree obtained"), Msg("Step 3")>>)
    /\ projects' = [projects EXCEPT ![t].pc = "roles",
                                    ![t].directory_tree = get_directory_tree(projects[t].dir)]
    /\ ProjectFrame

\* the directory-role call returns; Step 4 starts and the files are listed
ProjectRoles(t) ==
    LET all_files == AnalysedFiles(projects[t].dir)
    IN  /\ projects[t].pc = "roles"
        /\ update_progress(projects[t].pid,
               <<Msg("file roles summarised"), Msg("Step 4"),
                 MsgArg("files to analyse", ToString(Len(all_files)))>>)
        /\ projects' = [projects EXCEPT ![t].pc = IF all_files = <<>> THEN "wrap" ELSE "file",
                                        ![t].file_roles = <<"roles of", projects[t].pid>>,
                                        ![t].all_files = all_files,
                                        ![t].i = 1]
        /\ ProjectFrame

\* a completion call of process_project raises outside the file loop: the
\* outer except logs it and the worker returns
ProjectCallRaises(t) ==
    /\ projects[t].pc \in {"roles", "outline_call"}
    /\ update_progress(projects[t].pid, <<Msg("error during processing")>>)
    /\ projects' = [projects EXCEPT ![t].pc = "done", ![t].raised = TRUE]
    /\ ProjectFrame

\* the progress line of file i
ProjectFile(t) ==
    /\ projects[t].pc = "file"
    /\ update_progress(projects[t].pid,
           <<MsgArg("analysing file", projects[t].all_files[projects[t].i].path)>>)
    /\ projects' = [projects EXCEPT ![t].pc = "detail"]
    /\ ProjectFrame

\* after file i: the next file, or the end of the loop
AfterFile(p) == IF p.i < Len(p.all_files) THEN "file" ELSE "wrap"

\* detailed_code_analysis += "\n\n## " + relative_file_path + "\n" + file_detail
AddAnalysis(detailed_code_analysis, file) ==
    detailed_code_analysis \o <<<<"## ", file.path>>>>

\* the read and the completion call of file i succeed
ProjectDetail(t) ==
    /\ projects[t].pc = "detail"
    /\ projects' = [projects EXCEPT
           ![t].pc = AfterFile(projects[t]),
           ![t].detailed_code_analysis = AddAnalysis(@, projects[t].all_files[projects[t].i]),
           ![t].outcomes = Append(@, TRUE),
           ![t].i = @ + 1]
    /\ UNCHANGED <<progress_history, progress_status>>
    /\ ProjectFrame

AfterFailureAborts(p) == "wrap"

\* the pc after the analysis of file i failed: the loop goes on
AfterFailure(p) == AfterFile(p)

\* the read or the completion call of file i raises: logged with the file's
\* path, and the loop goes on
ProjectDetailFails(t) ==
    /\ projects[t].pc = "detail"
    /\ update_progress(projects[t].pid,
           <<MsgArg("file analysis failed", projects[t].all_files[projects[t].i].path)>>)
    /\ projects' = [projects EXCEPT
           ![t].pc = AfterFailure(projects[t]),
           ![t].outcomes = Append(@, FALSE),
           ![t].i = @ + 1]
    /\ ProjectFrame

\* the end of Step 4 and read_project_files
ProjectWrap(t) ==
    /\ projects[t].pc = "wrap"
    /\ update_progress(projects[t].pid,
           <<Msg("detailed analysis completed"), Msg("basic information extracted")>>)
    /\ projects' = [projects EXCEPT
           ![t].pc = "put_tree",
           ![t].project_files_content = read_project_files(projects[t].dir)]
    /\ ProjectFrame

ProjectPutStep(t, pc, suffix, value, next) ==
    /\ projects[t].pc = pc
    /\ result_store' = Put(result_store, Key(projects[t].pid, suffix), value)
    /\ projects' = [projects EXCEPT ![t].pc = next]
    /\ UNCHANGED <<progress_history, progress_status, session, uuids, drafts,
                   regens, was_reset, gfb, writers, streams>>

ProjectPutTree(t) ==
    ProjectPutStep(t, "put_tree", "_tree", projects[t].directory_tree, "put_roles")

ProjectPutRoles(t) ==
    ProjectPutStep(t, "put_roles", "_roles", projects[t].file_roles, "put_analysis")

ProjectPutAnalysis(t) ==
    ProjectPutStep(t, "put_analysis", "_analysis", projects[t].detailed_code_analysis,
                   "put_files")

ProjectPutFiles(t) ==
    ProjectPutStep(t, "put_files", "_files", projects[t].project_files_content, "outline")

\* generate_outline_common: the first update_progress
ProjectOutline(t) ==
    /\ projects[t].pc = "outline"
    /\ update_progress(projects[t].pid, <<Msg("generating outline")>>)
    /\ projects' = [projects EXCEPT ![t].pc = "outline_call"]
    /\ ProjectFrame

\* the outline call returns; the outer ```json fence is removed
ProjectOutlineReturned(t, outlines) ==
    /\ projects[t].pc = "outline_call"
    /\ \E content \in outlines :
        projects' = [projects EXCEPT ![t].pc = "outline_put",
                                     ![t].blog_outline = remove_outer_json_fence(content)]
    /\ UNCHANGED <<progress_history, progress_status>>
    /\ ProjectFrame

ProjectOutlinePut(t) ==
    ProjectPutStep(t, "outline_put", "_outline", projects[t].blog_outline, "outline_done")

ProjectOutlineDone(t) ==
    /\ projects[t].pc = "outline_done"
    /\ update_progress(projects[t].pid, <<Msg("blog outline completed")>>)
    /\ projects' = [projects EXCEPT ![t].pc = "done"]
    /\ ProjectFrame

(***************************************************************************)
(* Request handlers.  A handler that makes no completion call runs as one  *)
(* step.  b is the browser whose cookie the request carries.               *)
(***************************************************************************)
NoId == ""

\* session.get("progress_id", None)
ProgressIdOf(cookie) == Get(cookie, "progress_id", NoId)

\* the texts a human submits as an edited outline or an edited article

EditedArticles == { <<"a">> }

\* index, POST with neither project_folder nor github_url and no edit field:
\* a new identifier is put into the session and the first progress message
\* is written before the submission is refused
SubmitNothing(b, max_ids) ==
    LET progress_id == IdName(uuids + 1)
    IN  /\ uuids < max_ids
        /\ uuids' = uuids + 1
        /\ session' = [session EXCEPT ![b] =
               Put(Put(@, "progress_id", progress_id), "params", [github_url |-> ""])]
        /\ update_progress(progress_id, <<Msg("processing starts")>>)
        /\ UNCHANGED <<result_store, projects, drafts, regens, was_reset, gfb, writers, streams>>

\* the github_url fields submitted
Urls == {"", "url"}

\* index, POST with a project_folder part or a github_url: the session is
\* cleared of the old identifier, a new one is issued, the uploaded files are
\* saved into a fresh folder (none, when the part has no file name) and the
\* analysis thread is started
SubmitProject(b, urls, dirs, max_ids, max_projects) ==
    LET progress_id == IdName(uuids + 1)
    IN  /\ uuids < max_ids
        /\ Len(projects) < max_projects
        /\ \E github_url \in urls, dir \in dirs :
            /\ session' = [session EXCEPT ![b] =
                   Put(Put(Pop(@, "final_blog_started"), "progress_id", progress_id),
                       "params", [github_url |-> github_url])]
            /\ projects' = Append(projects, NewProject(progress_id, github_url, dir))
        /\ uuids' = uuids + 1
        /\ update_progress(progress_id, <<Msg("processing starts")>>)
        /\ UNCHANGED <<result_store, drafts, regens, was_reset, gfb, writers, streams>>

\* index, POST with edited_markdown
EditArticle(b) ==
    /\ ProgressIdOf(session[b]) # NoId
    /\ \E edited_markdown \in EditedArticles :
        result_store' = Put(result_store, Key(ProgressIdOf(session[b]), ""),
                            edited_markdown)
    /\ UNCHANGED <<progress_history, progress_status, session, uuids, projects,
                   drafts, regens, was_reset, gfb, writers, streams>>

EditOutlineOverAnalysis(b, outlines) ==
    /\ ProgressIdOf(session[b]) # NoId
    /\ \E edited_outline \in outlines :
        result_store' = Put(result_store, Key(ProgressIdOf(session[b]), "_analysis"),
                            edited_outline)
    /\ UNCHANGED <<progress_history, progress_status, session, uuids, projects,
                   drafts, regens, was_reset, gfb, writers, streams>>

\* index, POST with edited_outline and no regenerate_outline
EditOutline(b, outlines) ==
    /\ ProgressIdOf(session[b]) # NoId
    /\ \E edited_outline \in outlines :
        result_store' = Put(result_store, Key(ProgressIdOf(session[b]), "_outline"),
                            edited_outline)
    /\ UNCHANGED <<progress_history, progress_status, session, uuids, projects,
                   drafts, regens, was_reset, gfb, writers, streams>>

\* generate_final_blog without regenerate_outline: the edited outline, when
\* the form holds one, is stored; the drafting thread is started
GenerateFinalBlog(b, outlines, max_drafts) ==
    LET progress_id == ProgressIdOf(session[b])
    IN  /\ progress_id # NoId
        /\ Len(drafts) < max_drafts
        /\ \/ UNCHANGED result_store
           \/ \E edited_outline \in outlines :
                result_store' = Put(result_store, Key(progress_id, "_outline"),
                                    edited_outline)
        /\ session' = [session EXCEPT ![b] = Put(@, "final_blog_started", TRUE)]
        /\ update_progress(progress_id, <<Msg("final blog generation starts")>>)
        /\ drafts' = Append(drafts, NewDraft(progress_id, "generate_final_blog"))
        /\ UNCHANGED <<uuids, projects, regens, was_reset, gfb, writers, streams>>

\* generate_final_blog with regenerate_outline=true, up to the outline
\* completion call the handler makes itself: two progress lines, the four
\* artifacts read back, the progress line of generate_outline_common.  The
\* request holds the cookie it arrived with.
RegenerateOutlineStart(b, max_regens) ==
    LET progress_id == ProgressIdOf(session[b])
    IN  /\ progress_id # NoId
        /\ Len(regens) < max_regens
        /\ update_progress(progress_id,
               <<Msg("outline regeneration starts"), Msg("regenerating outline"),
                 Msg("generating outline")>>)
        /\ regens' = Append(regens, [b |-> b, pid |-> progress_id, pc |-> "call",
                                     cookie |-> session[b]])
        /\ UNCHANGED <<result_store, session, uuids, projects, drafts, was_reset, gfb, writers, streams>>

\* the completion call returns: the outline is stored, the rest of the
\* handler runs and the drafting thread is started; the response carries
\* the request's cookie with final_blog_started set
RegenerateOutlineReturned(r, outlines) ==
    /\ regens[r].pc = "call"
    /\ \E content \in outlines :
        result_store' = Put(result_store, Key(regens[r].pid, "_outline"),
                            remove_outer_json_fence(content))
    /\ update_progress(regens[r].pid,
           <<Msg("blog outline completed"), Msg("final blog generation starts")>>)
    /\ session' = [session EXCEPT ![regens[r].b] =
                       Put(regens[r].cookie, "final_blog_started", TRUE)]
    /\ drafts' = Append(drafts, NewDraft(regens[r].pid, "generate_final_blog"))
    /\ regens' = [regens EXCEPT ![r].pc = "done"]
    /\ UNCHANGED <<uuids, projects, was_reset, gfb, writers, streams>>

\* the completion call raises: nothing in the handler catches it, the
\* request ends with a server error
RegenerateOutlineRaises(r) ==
    /\ regens[r].pc = "call"
    /\ regens' = [regens EXCEPT ![r].pc = "failed"]
    /\ UNCHANGED <<progress_history, progress_status, result_store, session, uuids,
                   projects, drafts, was_reset, gfb, writers, streams>>

\* regenerate_blog: the edited article is stored and the drafting thread is
\* started
RegenerateBlog(b, max_drafts) ==
    LET progress_id == ProgressIdOf(session[b])
    IN  /\ progress_id # NoId
        /\ Len(drafts) < max_drafts
        /\ \E edited_markdown \in EditedArticles :
            result_store' = Put(result_store, Key(progress_id, ""), edited_markdown)
        /\ session' = [session EXCEPT ![b] = Put(@, "final_blog_started", TRUE)]
        /\ update_progress(progress_id, <<Msg("regenerating from body")>>)
        /\ drafts' = Append(drafts, NewDraft(progress_id, "regenerate_blog"))
        /\ UNCHANGED <<uuids, projects, regens, was_reset, gfb, writers, streams>>

RECURSIVE PopAll(_, _)
PopAll(d, keys) ==
    IF keys = {} THEN d
    ELSE LET k == CHOOSE k \in keys : TRUE IN PopAll(Pop(d, k), keys \ {k})

\* reset: the session's entries are popped and the cookie is cleared
Reset(b) ==
    LET progress_id == ProgressIdOf(session[b])
    IN  /\ IF progress_id # NoId
           THEN /\ progress_history' = Pop(progress_history, progress_id)
                /\ progress_status' = Pop(progress_status, progress_id)
                /\ result_store' =
                       PopAll(result_store, {Key(progress_id, x) : x \in Suffixes})
                /\ was_reset' = was_reset \cup {progress_id}
           ELSE UNCHANGED <<progress_history, progress_status, result_store, was_reset>>
        /\ session' = [session EXCEPT ![b] = EmptyDict]
        /\ UNCHANGED <<uuids, projects, drafts, regens, gfb, writers, streams>>

(***************************************************************************)
(* The drafting worker on its own: one browser obtains a session, submits  *)
(* an outline with generate_final_blog, and the one drafting thread runs   *)
(* against a completion client that may return any of DraftChunks.         *)
(***************************************************************************)
\* the completion calls one drafting thread may make
MaxCalls == 4

DraftNext ==
    \/ SubmitNothing("b1", 1)
    \/ GenerateFinalBlog("b1", OutlineTexts, 1)
    \/ \E t \in DOMAIN drafts : DraftStart(t)
    \/ \E t \in DOMAIN drafts : DraftParseFails(t)
    \/ \E t \in DOMAIN drafts : DraftLoadCrashes(t)
    \/ \E t \in DOMAIN drafts : DraftNoChapters(t)
    \/ \E t \in DOMAIN drafts : DraftLoaded(t)
    \/ \E t \in DOMAIN drafts : DraftContinue(t, DraftChunks, MaxCalls)
    \/ \E t \in DOMAIN drafts : DraftChapterDone(t, DraftChunks, MaxCalls)
    \/ \E t \in DOMAIN drafts : DraftCallRaises(t)
    \/ \E t \in DOMAIN drafts : DraftPut(t)
    \/ \E t \in DOMAIN drafts : DraftFinal(t)

SpecDraft == Init /\ [][DraftNext]_vars

(***************************************************************************)
(* The analysis worker alone: one submission, every project tree.          *)
(***************************************************************************)
ProjectOutlines == { <<ChapterDoc(1)>>, <<"J", "\n", ChapterDoc(1), "\n", "F">> }

ProjectNext ==
    \/ SubmitProject("b1", Urls, ProjectTrees \cup {<<>>}, 1, 1)
    \/ \E t \in DOMAIN projects : ProjectStartUploaded(t)
    \/ \E t \in DOMAIN projects : ProjectStartClone(t)
    \/ \E t \in DOMAIN projects : ProjectCloned(t, ProjectTrees)
    \/ \E t \in DOMAIN projects : ProjectCloneFails(t)
    \/ \E t \in DOMAIN projects : ProjectTree(t)
    \/ \E t \in DOMAIN projects : ProjectRoles(t)
    \/ \E t \in DOMAIN projects : ProjectCallRaises(t)
    \/ \E t \in DOMAIN projects : ProjectFile(t)
    \/ \E t \in DOMAIN projects : ProjectDetail(t)
    \/ \E t \in DOMAIN projects : ProjectDetailFails(t)
    \/ \E t \in DOMAIN projects : ProjectWrap(t)
    \/ \E t \in DOMAIN projects : ProjectPutTree(t)
    \/ \E t \in DOMAIN projects : ProjectPutRoles(t)
    \/ \E t \in DOMAIN projects : ProjectPutAnalysis(t)
    \/ \E t \in DOMAIN projects : ProjectPutFiles(t)
    \/ \E t \in DOMAIN projects : ProjectOutline(t)
    \/ \E t \in DOMAIN projects : ProjectOutlineReturned(t, ProjectOutlines)
    \/ \E t \in DOMAIN projects : ProjectOutlinePut(t)
    \/ \E t \in DOMAIN projects : ProjectOutlineDone(t)

SpecProject == Init /\ [][ProjectNext]_vars

(***************************************************************************)
(* The whole application: two browsers, every handler, every worker.       *)
(***************************************************************************)
\* the identifiers issued
MaxIds == 1

\* the analysis threads started
MaxProjects == 1

\* the drafting threads started
MaxDrafts == 1

\* the completion calls of one drafting thread
MaxSysCalls == 2

\* the outline regenerations requested
MaxRegens == 1

\* the outlines a browser posts
SysOutlines == { <<ChapterDoc(1)>>, <<"[]">>, <<"{}">> }

\* the outline the completion client returns
GoodOutlines == { <<ChapterDoc(1)>> }

\* no worker and no outline regeneration of the identifier is under way
Idle(progress_id) ==
    /\ \A t \in DOMAIN projects :
          projects[t].pid = progress_id => projects[t].pc = "done"
    /\ \A t \in DOMAIN drafts :
          drafts[t].pid = progress_id => drafts[t].pc \in {"done", "crashed"}
    /\ \A r \in DOMAIN regens :
          regens[r].pid = progress_id => regens[r].pc \in {"done", "failed"}

Next ==
    \/ \E b \in Browsers : SubmitNothing(b, MaxIds)
    \/ \E b \in Browsers : SubmitProject(b, Urls, SysTrees \cup {<<>>}, MaxIds, MaxProjects)
    \/ \E b \in Browsers : EditArticle(b)
    \/ \E b \in Browsers : EditOutline(b, SysOutlines)
    \/ \E b \in Browsers :
          Idle(ProgressIdOf(session[b])) /\ GenerateFinalBlog(b, GoodOutlines, MaxDrafts)
    \/ \E b \in Browsers :
          Idle(ProgressIdOf(session[b])) /\ RegenerateOutlineStart(b, MaxRegens)
    \/ \E r \in DOMAIN regens : RegenerateOutlineReturned(r, GoodOutlines)
    \/ \E r \in DOMAIN regens : RegenerateOutlineRaises(r)
    \/ \E b \in Browsers :
          Idle(ProgressIdOf(session[b])) /\ RegenerateBlog(b, MaxDrafts)
    \/ \E b \in Browsers : Reset(b)
    \/ \E t \in DOMAIN projects : ProjectStartUploaded(t)
    \/ \E t \in DOMAIN projects : ProjectStartClone(t)
    \/ \E t \in DOMAIN projects : ProjectCloned(t, SysTrees)
    \/ \E t \in DOMAIN projects : ProjectCloneFails(t)
    \/ \E t \in DOMAIN projects : ProjectTree(t)
    \/ \E t \in DOMAIN projects : ProjectRoles(t)
    \/ \E t \in DOMAIN projects : ProjectCallRaises(t)
    \/ \E t \in DOMAIN projects : ProjectFile(t)
    \/ \E t \in DOMAIN projects : ProjectDetail(t)
    \/ \E t \in DOMAIN projects : ProjectDetailFails(t)
    \/ \E t \in DOMAIN projects : ProjectWrap(t)
    \/ \E t \in DOMAIN projects : ProjectPutTree(t)
    \/ \E t \in DOMAIN projects : ProjectPutRoles(t)
    \/ \E t \in DOMAIN projects : ProjectPutAnalysis(t)
    \/ \E t \in DOMAIN projects : ProjectPutFiles(t)
    \/ \E t \in DOMAIN projects : ProjectOutline(t)
    \/ \E t \in DOMAIN projects : ProjectOutlineReturned(t, GoodOutlines)
    \/ \E t \in DOMAIN projects : ProjectOutlinePut(t)
    \/ \E t \in DOMAIN projects : ProjectOutlineDone(t)
    \/ \E t \in DOMAIN drafts : DraftStart(t)
    \/ \E t \in DOMAIN drafts : DraftParseFails(t)
    \/ \E t \in DOMAIN drafts : DraftLoadCrashes(t)
    \/ \E t \in DOMAIN drafts : DraftNoChapters(t)
    \/ \E t \in DOMAIN drafts : DraftLoaded(t)
    \/ \E t \in DOMAIN drafts : DraftContinue(t, SysChunks, MaxSysCalls)
    \/ \E t \in DOMAIN drafts : DraftChapterDone(t, SysChunks, MaxSysCalls)
    \/ \E t \in DOMAIN drafts : DraftCallRaises(t)
    \/ \E t \in DOMAIN drafts : DraftPut(t)
    \/ \E t \in DOMAIN drafts : DraftFinal(t)

Spec == Init /\ [][Next]_vars

(***************************************************************************)
(* Two sessions side by side: each browser submits a project, edits and    *)
(* drafts once its analysis is over; no call fails.                        *)
(***************************************************************************)
\* the sessions opened
MaxSessions == 2

SessionsNext ==
    \/ \E b \in Browsers : SubmitProject(b, {"url"}, SysTrees, MaxSessions, MaxSessions)
    \/ \E b \in Browsers :
          Idle(ProgressIdOf(session[b])) /\ EditArticle(b)
    \/ \E b \in Browsers :
          Idle(ProgressIdOf(session[b])) /\ EditOutline(b, GoodOutlines)
    \/ \E b \in Browsers :
          Idle(ProgressIdOf(session[b])) /\ GenerateFinalBlog(b, GoodOutlines, MaxSessions)
    \/ \E t \in DOMAIN projects : ProjectStartUploaded(t)
    \/ \E t \in DOMAIN projects : ProjectTree(t)
    \/ \E t \in DOMAIN projects : ProjectRoles(t)
    \/ \E t \in DOMAIN projects : ProjectFile(t)
    \/ \E t \in DOMAIN projects : ProjectDetail(t)
    \/ \E t \in DOMAIN projects : ProjectWrap(t)
    \/ \E t \in DOMAIN projects : ProjectPutTree(t)
    \/ \E t \in DOMAIN projects : ProjectPutRoles(t)
    \/ \E t \in DOMAIN projects : ProjectPutAnalysis(t)
    \/ \E t \in DOMAIN projects : ProjectPutFiles(t)
    \/ \E t \in DOMAIN projects : ProjectOutline(t)
    \/ \E t \in DOMAIN projects : ProjectOutlineReturned(t, GoodOutlines)
    \/ \E t \in DOMAIN projects : ProjectOutlinePut(t)
    \/ \E t \in DOMAIN projects : ProjectOutlineDone(t)
    \/ \E t \in DOMAIN drafts : DraftStart(t)
    \/ \E t \in DOMAIN drafts : DraftLoaded(t)
    \/ \E t \in DOMAIN drafts : DraftChapterDone(t, SysChunks, 1)
    \/ \E t \in DOMAIN drafts : DraftPut(t)
    \/ \E t \in DOMAIN drafts : DraftFinal(t)

SpecSessions == Init /\ [][SessionsNext]_vars

(***************************************************************************)
(* The drafting worker against a completion client whose every chunk is    *)
(* the bare sentinel; each session runs at most one drafting thread.       *)
(***************************************************************************)
\* max_iterations=20, the one configured maximum of continuation rounds
DefaultMaxIterations == 20

\* the completion calls one drafting thread may make against that client
MaxTruncatedCalls == 22

TruncatedNext ==
    \/ \E b \in Browsers : SubmitNothing(b, 2)
    \/ \E b \in Browsers :
          /\ \A t \in DOMAIN drafts : drafts[t].pid # ProgressIdOf(session[b])
          /\ GenerateFinalBlog(b, {<<ChapterDoc(1)>>}, 2)
    \/ \E t \in DOMAIN drafts : DraftStart(t)
    \/ \E t \in DOMAIN drafts : DraftParseFails(t)
    \/ \E t \in DOMAIN drafts : DraftLoaded(t)
    \/ \E t \in DOMAIN drafts : DraftContinue(t, SentinelChunks, MaxTruncatedCalls)

SpecTruncated == Init /\ [][TruncatedNext]_vars

(***************************************************************************)
(* What the claims speak of.                                               *)
(***************************************************************************)
\* the ProgressLog of a session holds a message of one of these kinds
Logged(progress_id, kinds) ==
    \E i \in DOMAIN Get(progress_history, progress_id, <<>>) :
        progress_history[progress_id][i][1] \in kinds

ErrorKinds ==
    {"outline JSON parse failed", "no chapters in outline",
     "error during processing", "clone failed", "file analysis failed"}

\* the responses received for chapter i, in the order received
ResponsesFor(calls, i) ==
    LET Pick[k \in 0..Len(calls)] ==
            IF k = 0 THEN <<>>
            ELSE IF calls[k].idx = i THEN Pick[k - 1] \o <<calls[k].response>>
            ELSE Pick[k - 1]
    IN  Pick[Len(calls)]

RECURSIVE ChapterText(_)
\* the splice of the chunks of one chapter: each chunk is added on a new
\* line, and before the next chunk is added the trailing sentinel is cut
ChapterText(responses) ==
    IF responses = <<>> THEN <<>>
    ELSE Accumulate(Truncate(ChapterText(Front(responses))), Last(responses))

RECURSIVE ChaptersInOrder(_, _)
\* the chapter texts of chapters 1..n, one after the other
ChaptersInOrder(calls, n) ==
    IF n = 0 THEN <<>>
    ELSE ChaptersInOrder(calls, n - 1) \o <<"\n">> \o ChapterText(ResponsesFor(calls, n))

\* the drafting threads that have stored their article
Stored(t) == drafts[t].pc \in {"final", "done"}

ArticleOf(progress_id) == Get(result_store, Key(progress_id, ""), <<>>)

\* C4: in per-chapter drafting the completion calls issued for one chapter
\* never exceed the configured maximum (the first call and at most
\* max_iterations continuation rounds), also when every chunk ends with the
\* sentinel.  The chapter loop has no such bound.
C4_ChapterCallsBounded ==
    \A t \in DOMAIN drafts :
        Len(ResponsesFor(drafts[t].calls, drafts[t].idx)) <= 1 + DefaultMaxIterations

\* C6: the article a drafting run stores is the chapter texts of chapters
\* 1..n in outline order, each the splice of the chunks received for it in
\* the order received (then post-processed), and the completion calls are
\* issued chapter by chapter: no call for a chapter precedes a call for an
\* earlier one, and every chapter has been called for.
C6_ArticleIsChaptersInOrder ==
    \A t \in DOMAIN drafts :
        Stored(t) =>
            LET d == drafts[t]
                n == NumChapters(d.doc)
            IN  /\ ArticleOf(d.pid) = PostProcess(ChaptersInOrder(d.calls, n))
                /\ \A i, j \in DOMAIN d.calls : i < j => d.calls[i].idx <= d.calls[j].idx
                /\ \A c \in 1..n : ResponsesFor(d.calls, c) # <<>>

\* C6 witness: a finished run over two chapters, the first assembled from two
\* chunks, whose chapter texts differ
C6_Witness ==
    \E t \in DOMAIN drafts :
        /\ drafts[t].pc = "done"
        /\ NumChapters(drafts[t].doc) = 2
        /\ Len(ResponsesFor(drafts[t].calls, 1)) = 2
        /\ ChapterText(ResponsesFor(drafts[t].calls, 1))
             # ChapterText(ResponsesFor(drafts[t].calls, 2))

\* C7: the article stored by per-chapter drafting contains no sentinel in
\* any form the detector recognises.  The final re.sub is case-sensitive.
C7_StoredArticleHasNoSentinel ==
    \A t \in DOMAIN drafts : Stored(t) => ~ContainsSentinel(ArticleOf(drafts[t].pid))

\* the outline is not a JSON object whose chapters is a non-empty list
BadShape(blog_outline) == json_loads(blog_outline) \notin ChapterDocs

\* C8: a drafting worker that read an outline of the wrong shape has, once it
\* has ended, appended an error line, issued no completion call, and left
\* the article key and the outline key as they were.  An outline that is
\* valid JSON but no object ends the thread by an uncaught exception.
C8_BadOutlineIsLogged ==
    \A t \in DOMAIN drafts :
        LET d == drafts[t]
        IN  (d.pc \in {"done", "crashed"} /\ ~d.raised /\ BadShape(d.blog_outline)) =>
                /\ Logged(d.pid, ErrorKinds)
                /\ d.calls = <<>>
                /\ Key(d.pid, "") \notin DOMAIN result_store
                /\ Get(result_store, Key(d.pid, "_outline"), <<>>) = d.blog_outline

\* C10: in every stage (directory-role summary and outline generation in
\* the analysis thread, outline regeneration in the handler, per-chapter
\* drafting) a completion call that raised has been caught, an error message
\* has been appended to the session's ProgressLog and the stage has stopped
\* without writing its artifact.  Nothing catches the exception in the
\* drafting thread, nor in the handler that regenerates the outline.
C10_RaiseIsCaughtAndLogged ==
    /\ \A t \in DOMAIN drafts :
        drafts[t].raised =>
            /\ drafts[t].pc = "done"
            /\ Logged(drafts[t].pid, ErrorKinds)
            /\ Key(drafts[t].pid, "") \notin DOMAIN result_store
    /\ \A r \in DOMAIN regens :
        regens[r].pc = "failed" => Logged(regens[r].pid, ErrorKinds)
    /\ \A t \in DOMAIN projects :
        projects[t].raised =>
            /\ projects[t].pc = "done"
            /\ Logged(projects[t].pid, ErrorKinds)
            /\ Key(projects[t].pid,
                   IF projects[t].file_roles = <<>> THEN "_roles" ELSE "_outline")
                 \notin DOMAIN result_store

\* every value a lookup under the identifier returns: the progress history,
\* the current status and the six artifacts, each with whether it is there
Lookups(progress_id) ==
    << progress_id \in DOMAIN progress_history,
       Get(progress_history, progress_id, <<>>),
       progress_id \in DOMAIN progress_status,
       Get(progress_status, progress_id, <<>>),
       [x \in Suffixes |-> Key(progress_id, x) \in DOMAIN result_store],
       [x \in Suffixes |-> Get(result_store, Key(progress_id, x), <<>>)] >>

NotFound(progress_id) ==
    /\ progress_id \notin DOMAIN progress_history
    /\ progress_id \notin DOMAIN progress_status
    /\ \A x \in Suffixes : Key(progress_id, x) \notin DOMAIN result_store

\* C1: once reset has been handled for a session, every lookup of that
\* session's keys (history, status, tree, roles, analysis, files, outline,
\* article) returns not-found ever after, also when a worker of the session
\* was still running at the reset.  Such a worker goes on writing.
C1_ResetIsFinal == \A progress_id \in was_reset : NotFound(progress_id)

\* the identifiers issued so far, after the step
Issued == {IdName(n) : n \in 1..uuids'}

\* the step leaves every lookup under another identifier as it was
OnlyWrites(progress_id) ==
    \A other \in Issued \ {progress_id} : Lookups(other)' = Lookups(other)

\* C2: a write made on behalf of one session (by a handler serving its
\* browser, by its analysis thread, by its drafting thread) never changes
\* the value of any lookup under another session's identifier.
C2_SessionsIsolated ==
    [][ /\ \A b \in Browsers :
            (\/ EditArticle(b)
             \/ EditOutline(b, GoodOutlines)
             \/ GenerateFinalBlog(b, GoodOutlines, MaxSessions))
                => OnlyWrites(ProgressIdOf(session[b]))
        /\ \A b \in Browsers :
            SubmitProject(b, {"url"}, SysTrees, MaxSessions, MaxSessions)
                => OnlyWrites(ProgressIdOf(session'[b]))
        /\ \A t \in DOMAIN projects :
            projects'[t] # projects[t] => OnlyWrites(projects[t].pid)
        /\ \A t \in DOMAIN drafts :
            drafts'[t] # drafts[t] => OnlyWrites(drafts[t].pid)
      ]_vars

\* C2 witness: the first session's article has been written while the
\* second session holds its artifacts and a history of its own, and the
\* second session's article is still not found
C2_Witness ==
    /\ Key(IdName(1), "") \in DOMAIN result_store
    /\ Key(IdName(2), "_analysis") \in DOMAIN result_store
    /\ Key(IdName(2), "_outline") \in DOMAIN result_store
    /\ Key(IdName(2), "") \notin DOMAIN result_store
    /\ Get(progress_history, IdName(1), <<>>) # Get(progress_history, IdName(2), <<>>)

RECURSIVE Succeeded(_, _)
\* the entries of the files whose analysis succeeded, in processing order
Succeeded(all_files, outcomes) ==
    IF outcomes = <<>> THEN <<>>
    ELSE Succeeded(all_files, Front(outcomes))
            \o (IF Last(outcomes)
                THEN <<<<"## ", all_files[Len(outcomes)].path>>>> ELSE <<>>)

\* the analysis thread is past its file loop
PastFiles(p) ==
    p.pc \in {"wrap", "put_tree", "put_roles", "put_analysis", "put_files", "outline",
              "outline_call", "outline_put", "outline_done"}
    \/ (p.pc = "done" /\ p.file_roles # <<>>)

\* C9: in process_project, when the analysis of a file has failed, the
\* ProgressLog holds a failure line with that file's relative path, every
\* file after it is analysed all the same, and the stored
\* detailed_code_analysis is exactly the entries of the files whose analysis
\* succeeded, in processing order.
C9_FileFailureIsSkipped ==
    \A t \in DOMAIN projects :
        LET p == projects[t]
        IN  /\ \A k \in DOMAIN p.outcomes :
                ~p.outcomes[k] =>
                    \E m \in DOMAIN Get(progress_history, p.pid, <<>>) :
                        progress_history[p.pid][m]
                            = MsgArg("file analysis failed", p.all_files[k].path)
            /\ PastFiles(p) => Len(p.outcomes) = Len(AnalysedFiles(p.dir))
            /\ Key(p.pid, "_analysis") \in DOMAIN result_store =>
                    result_store[Key(p.pid, "_analysis")]
                        = Succeeded(AnalysedFiles(p.dir), p.outcomes)

\* C9 witness: of three files the second failed, the third was analysed and
\* the analysis is stored
C9_Witness ==
    \E t \in DOMAIN projects :
        /\ projects[t].outcomes = <<TRUE, FALSE, TRUE>>
        /\ Key(projects[t].pid, "_analysis") \in DOMAIN result_store

(***************************************************************************)
(* get_full_blog (src/app.py 436-476), called with any initial response    *)
(* and any max_iterations.  i counts the rounds of the for loop, each of   *)
(* which makes one continuation call; gens is the record of the            *)
(* generations: the initial response, then the chunks in the order         *)
(* returned.                                                               *)
(***************************************************************************)
GfbInit ==
    /\ progress_history = EmptyDict
    /\ progress_status = EmptyDict
    /\ result_store = EmptyDict
    /\ session = [b \in Browsers |-> EmptyDict]
    /\ uuids = 0
    /\ projects = <<>>
    /\ drafts = <<>>
    /\ regens = <<>>
    /\ was_reset = {}
    /\ writers = <<>>
    /\ streams = <<>>
    /\ \E initial_response \in Chunks, max_iterations \in 0..MaxIter :
        gfb = [pc |-> "loop", progress_id |-> IdName(1), full_blog |-> initial_response,
               max_iterations |-> max_iterations, i |-> 0,
               gens |-> <<initial_response>>]

GfbInRangeInclusive == gfb.i <= gfb.max_iterations

\* for _ in range(max_iterations): another round is left
GfbInRange == gfb.i < gfb.max_iterations

GfbBreakEarly ==
    /\ gfb.pc = "loop"
    /\ GfbInRange
    /\ gfb' = [gfb EXCEPT !.pc = "done"]
    /\ UNCHANGED app_vars

\* if not marker_pattern.search(full_blog): break
GfbBreak ==
    /\ gfb.pc = "loop"
    /\ GfbInRange
    /\ ~HasMarker(gfb.full_blog, TRUE)
    /\ gfb' = [gfb EXCEPT !.pc = "done"]
    /\ UNCHANGED app_vars

\* range(max_iterations) is exhausted
GfbExhausted ==
    /\ gfb.pc = "loop"
    /\ ~GfbInRange
    /\ gfb' = [gfb EXCEPT !.pc = "done"]
    /\ UNCHANGED app_vars

\* one continuation round: the progress line, llm.invoke, then the splice
GfbContinue ==
    /\ gfb.pc = "loop"
    /\ GfbInRange
    /\ HasMarker(gfb.full_blog, TRUE)
    /\ update_progress(gfb.progress_id, <<Msg("generating split output")>>)
    /\ \E next_chunk \in Chunks :
        gfb' = [gfb EXCEPT !.full_blog = StripMarker(gfb.full_blog, TRUE) \o next_chunk,
                           !.gens = Append(@, next_chunk),
                           !.i = gfb.i + 1]
    /\ UNCHANGED <<result_store, session, uuids, projects, drafts, regens, was_reset,
                   writers, streams>>

GfbNext == GfbBreak \/ GfbExhausted \/ GfbContinue

SpecGfb == GfbInit /\ [][GfbNext]_vars

\* C3: get_full_blog issues at most max_iterations continuation calls
C3_ContinuationCallsBounded ==
    gfb.pc # "idle" => gfb.i <= gfb.max_iterations /\ Len(gfb.gens) = gfb.i + 1

\* C3 witness: every chunk ended with the sentinel, and the loop has ended
\* after max_iterations calls with the sentinel still there
C3_Witness ==
    /\ gfb.pc = "done"
    /\ gfb.max_iterations >= 2
    /\ gfb.i = gfb.max_iterations
    /\ \A k \in DOMAIN gfb.gens : HasMarker(gfb.gens[k], TRUE)
    /\ HasMarker(gfb.full_blog, TRUE)

\* the first generation that does not end with the sentinel, 0 when all do
FirstUnmarked(gens) ==
    IF \A k \in DOMAIN gens : HasMarker(gens[k], TRUE) THEN 0
    ELSE CHOOSE k \in DOMAIN gens :
            /\ ~HasMarker(gens[k], TRUE)
            /\ \A j \in 1..(k - 1) : HasMarker(gens[j], TRUE)

\* no bracket and no sentinel word
SentinelFree(s) == \A k \in DOMAIN s : s[k] \notin {"<", ">", "C", "c"}

\* the text before the trailing sentinel of s
BeforeMarker(s) == SubSeq(s, 1, MarkerStart(s, TRUE) - 1)

\* sentinel-free text followed by one trailing sentinel
SentinelTerminated(s) == HasMarker(s, TRUE) /\ SentinelFree(BeforeMarker(s))

\* C5 as claimed: when generations 1..K-1 each end with the sentinel and
\* generation K does not, get_full_blog issues exactly K-1 continuation
\* calls and the text it returns contains no sentinel
C5_AsClaimed ==
    LET K == FirstUnmarked(gfb.gens)
    IN  (gfb.pc = "done" /\ K # 0) =>
            gfb.i = K - 1 /\ ~ContainsSentinel(gfb.full_blog)

\* C5 amended: when generations 1..K-1 each are sentinel-free text followed
\* by one trailing sentinel and generation K is sentinel-free, get_full_blog
\* issues exactly K-1 continuation calls and the text it returns contains no
\* sentinel
C5_CleanGenerations ==
    LET K == FirstUnmarked(gfb.gens)
    IN  ( /\ gfb.pc = "done"
          /\ K # 0
          /\ \A j \in 1..(K - 1) : SentinelTerminated(gfb.gens[j])
          /\ SentinelFree(gfb.gens[K]) ) =>
            gfb.i = K - 1 /\ ~ContainsSentinel(gfb.full_blog)

\* C5 witness: two sentinel-terminated generations with text, then a clean one
C5_Witness ==
    /\ gfb.pc = "done"
    /\ Len(gfb.gens) = 3
    /\ FirstUnmarked(gfb.gens) = 3
    /\ \A j \in 1..2 : SentinelTerminated(gfb.gens[j]) /\ BeforeMarker(gfb.gens[j]) # <<>>
    /\ SentinelFree(gfb.gens[3])
    /\ gfb.gens[3] # <<>>

\* the kinds of message a complete run of get_full_blog appends
CompleteRunKinds == {"generating split output"}

\* the loop ended by exhausting its rounds with the sentinel still there
GfbTruncated ==
    gfb.pc = "done" /\ gfb.i = gfb.max_iterations /\ HasMarker(gfb.full_blog, TRUE)

\* C11: when the continuation loop has stopped because its rounds are
\* exhausted while the sentinel is still present, the session's ProgressLog
\* holds a message that a complete generation does not append.  The loop
\* ends in silence and the text is returned as it is.
C11_ExhaustionIsReported ==
    GfbTruncated =>
        \E m \in DOMAIN Get(progress_history, gfb.progress_id, <<>>) :
            progress_history[gfb.progress_id][m][1] \notin CompleteRunKinds

\* the four corpus artifacts of the session are stored
CorpusStored(progress_id) ==
    \A x \in CorpusSuffixes : Key(progress_id, x) \in DOMAIN result_store

\* C12: within a session that has not been reset, an outline-generation
\* completion call (of the analysis thread, or of a regeneration) is in
\* flight only when the session's four corpus artifacts have been stored.
\* generate_final_blog regenerates on request, whatever is stored.
C12_OutlineCallAfterAnalysis ==
    /\ \A r \in DOMAIN regens :
        (regens[r].pc = "call" /\ regens[r].pid \notin was_reset)
            => CorpusStored(regens[r].pid)
    /\ \A t \in DOMAIN projects :
        (projects[t].pc = "outline_call" /\ projects[t].pid \notin was_reset)
            => CorpusStored(projects[t].pid)

\* C13: a drafting worker of a session for which no outline is stored makes
\* no chapter completion call and stores no article: it reads the empty
\* text, json.loads raises, the failure is logged and the worker returns.
C13_NoOutlineNoDraft ==
    \A t \in DOMAIN drafts :
        Key(drafts[t].pid, "_outline") \notin DOMAIN result_store =>
            /\ drafts[t].calls = <<>>
            /\ drafts[t].pc \in {"start", "load", "done"}
            /\ Key(drafts[t].pid, "") \notin DOMAIN result_store

\* C13 witness: a worker started with no outline stored has read, logged the
\* parse failure and returned
C13_Witness ==
    \E t \in DOMAIN drafts :
        /\ Key(drafts[t].pid, "_outline") \notin DOMAIN result_store
        /\ drafts[t].pc = "done"
        /\ Logged(drafts[t].pid, {"outline JSON parse failed"})

(***************************************************************************)
(* One session whose browser triggers drafting more than once: every       *)
(* trigger starts a thread of its own.                                     *)
(***************************************************************************)
\* the generation-triggering requests of the session
MaxTriggers == 2

\* the chunk the completion client returns
PlainChunks == { <<"a">> }

TriggersNext ==
    \/ SubmitNothing("b1", 1)
    \/ GenerateFinalBlog("b1", GoodOutlines, MaxTriggers)
    \/ RegenerateBlog("b1", MaxTriggers)
    \/ \E t \in DOMAIN drafts : DraftStart(t)
    \/ \E t \in DOMAIN drafts : DraftParseFails(t)
    \/ \E t \in DOMAIN drafts : DraftLoaded(t)
    \/ \E t \in DOMAIN drafts : DraftChapterDone(t, PlainChunks, 1)
    \/ \E t \in DOMAIN drafts : DraftPut(t)
    \/ \E t \in DOMAIN drafts : DraftFinal(t)

SpecTriggers == Init /\ [][TriggersNext]_vars

\* the completion calls in flight for the session
InFlight(progress_id) ==
    Cardinality({t \in DOMAIN drafts :
                    drafts[t].pid = progress_id /\ drafts[t].pc = "call"})
    + Cardinality({t \in DOMAIN projects :
                    /\ projects[t].pid = progress_id
                    /\ projects[t].pc \in {"roles", "detail", "outline_call"}})
    + Cardinality({r \in DOMAIN regens :
                    regens[r].pid = progress_id /\ regens[r].pc = "call"})

\* C14: at every moment at most one completion call is in flight per
\* session, also when the client repeats a trigger while a worker is still
\* running.  No handler looks for a running worker before starting one.
C14_OneCallInFlight ==
    \A n \in 1..uuids : InFlight(IdName(n)) <= 1

(***************************************************************************)
(* update_progress (src/app.py 92-98) statement by statement, called by    *)
(* concurrent threads of one session.  The function takes no lock, so a    *)
(* thread switch can fall between any two of its steps; the augmented      *)
(* assignment of line 97 is a load followed by a store.  A writer is at    *)
(*    "check"   before  if progress_id not in progress_history             *)
(*    "init"    before  progress_history[progress_id] = ""                 *)
(*    "load"    before the load of progress_history[progress_id]           *)
(*    "store"   before the store of the loaded value + message             *)
(*    "status"  before  progress_status[progress_id] = message             *)
(*    "done"    when every message of the thread has been passed           *)
(***************************************************************************)
\* the concurrent threads of the session
MaxWriters == 2

\* the update_progress calls of each thread
MaxMessages == 2

WriterMessages(w) ==
    [k \in 1..MaxMessages |-> MsgArg("writer " \o ToString(w), ToString(k))]

ProgressInit ==
    /\ progress_history = EmptyDict
    /\ progress_status = EmptyDict
    /\ result_store = EmptyDict
    /\ session = [b \in Browsers |-> EmptyDict]
    /\ uuids = 0
    /\ projects = <<>>
    /\ drafts = <<>>
    /\ regens = <<>>
    /\ was_reset = {}
    /\ gfb = [pc |-> "idle"]
    /\ writers = [w \in 1..MaxWriters |->
                     [pid |-> IdName(1), pc |-> "check", k |-> 1,
                      messages |-> WriterMessages(w), seen |-> <<>>]]
    /\ streams = <<>>

WriterFrame ==
    UNCHANGED <<result_store, session, uuids, projects, drafts, regens, was_reset, gfb,
                streams>>

\* if progress_id not in progress_history
WriterCheck(w) ==
    /\ writers[w].pc = "check"
    /\ writers' = [writers EXCEPT ![w].pc =
           IF writers[w].pid \in DOMAIN progress_history THEN "load" ELSE "init"]
    /\ UNCHANGED <<progress_history, progress_status>>
    /\ WriterFrame

\* progress_history[progress_id] = ""
WriterInit(w) ==
    /\ writers[w].pc = "init"
    /\ progress_history' = Put(progress_history, writers[w].pid, <<>>)
    /\ writers' = [writers EXCEPT ![w].pc = "load"]
    /\ UNCHANGED progress_status
    /\ WriterFrame

\* progress_history[progress_id] += message, the load
WriterLoad(w) ==
    /\ writers[w].pc = "load"
    /\ writers' = [writers EXCEPT ![w].pc = "store",
                                  ![w].seen = progress_history[writers[w].pid]]
    /\ UNCHANGED <<progress_history, progress_status>>
    /\ WriterFrame

\* progress_history[progress_id] += message, the store
WriterStore(w) ==
    /\ writers[w].pc = "store"
    /\ progress_history' =
           Put(progress_history, writers[w].pid,
               writers[w].seen \o <<writers[w].messages[writers[w].k]>>)
    /\ writers' = [writers EXCEPT ![w].pc = "status"]
    /\ UNCHANGED progress_status
    /\ WriterFrame

\* progress_status[progress_id] = message, and the return
WriterStatus(w) ==
    /\ writers[w].pc = "status"
    /\ progress_status' =
           StatusAfter(progress_status, writers[w].pid, writers[w].messages[writers[w].k])
    /\ writers' = [writers EXCEPT
           ![w].pc = IF writers[w].k < MaxMessages THEN "check" ELSE "done",
           ![w].k = IF writers[w].k < MaxMessages THEN @ + 1 ELSE @]
    /\ UNCHANGED progress_history
    /\ WriterFrame

ProgressNext ==
    \/ \E w \in DOMAIN writers : WriterCheck(w)
    \/ \E w \in DOMAIN writers : WriterInit(w)
    \/ \E w \in DOMAIN writers : WriterLoad(w)
    \/ \E w \in DOMAIN writers : WriterStore(w)
    \/ \E w \in DOMAIN writers : WriterStatus(w)

SpecProgress == ProgressInit /\ [][ProgressNext]_vars

\* how often the message stands in the history
Occurrences(h, message) == Cardinality({i \in DOMAIN h : h[i] = message})

\* C15: update_progress is atomic per message: when concurrent threads of
\* one session have made their calls, with no reset in between, the history
\* holds every appended message exactly once.  The append is a load and a
\* store with no lock around them, so a message can be lost.
C15_EveryMessageOnce ==
    (\A w \in DOMAIN writers : writers[w].pc = "done") =>
        \A w \in DOMAIN writers : \A k \in 1..MaxMessages :
            Occurrences(Get(progress_history, writers[w].pid, <<>>),
                        writers[w].messages[k]) = 1

\* the outlines only a browser posts: the completion client returns none
HumanOutlines == SysOutlines \ GoodOutlines

\* what a lookup of the session's outline returns
OutlineLookup(progress_id) ==
    << Key(progress_id, "_outline") \in DOMAIN result_store,
       Get(result_store, Key(progress_id, "_outline"), <<>>) >>

\* the step is an outline edit or a reset by the session's browser, or the
\* end of an outline regeneration the session triggered
OutlineEditOrResetStep(progress_id) ==
    \/ \E b \in Browsers :
        /\ ProgressIdOf(session[b]) = progress_id
        /\ \/ EditOutline(b, SysOutlines)
           \/ GenerateFinalBlog(b, GoodOutlines, MaxDrafts)
           \/ Reset(b)
    \/ \E r \in DOMAIN regens :
        regens[r].pid = progress_id /\ RegenerateOutlineReturned(r, GoodOutlines)

\* C16: once the edit path has stored a human-submitted outline for a
\* session, a lookup of the session's outline returns that string until the
\* next outline edit, outline regeneration or reset of the session.  The
\* analysis thread stores its own outline whenever it gets there.
C16_EditedOutlineStays ==
    [][ \A n \in 1..uuids :
            ( /\ OutlineLookup(IdName(n))[2] \in HumanOutlines
              /\ OutlineLookup(IdName(n))' # OutlineLookup(IdName(n)) )
                => OutlineEditOrResetStep(IdName(n))
      ]_vars

\* the step is a reset by the session's browser
ResetStep(progress_id) ==
    \E b \in Browsers : ProgressIdOf(session[b]) = progress_id /\ Reset(b)

\* C17: a corpus artifact of a session (tree, roles, analysis, files), once
\* stored, stays as it is until the session is reset: no outline edit,
\* outline regeneration, article edit, drafting or re-drafting changes it.
C17_CorpusIsImmutable ==
    [][ \A n \in 1..uuids : \A x \in CorpusSuffixes :
            Key(IdName(n), x) \in DOMAIN result_store =>
                \/ /\ Key(IdName(n), x) \in DOMAIN result_store'
                   /\ result_store'[Key(IdName(n), x)] = result_store[Key(IdName(n), x)]
                \/ ResetStep(IdName(n))
      ]_vars

\* C17 witness: the corpus is stored, an article has been drafted and edited
\* and the outline has been replaced by a human one
C17_Witness ==
    /\ CorpusStored(IdName(1))
    /\ OutlineLookup(IdName(1))[2] \in HumanOutlines
    /\ ArticleOf(IdName(1)) \in EditedArticles
    /\ \E t \in DOMAIN drafts : drafts[t].pid = IdName(1) /\ drafts[t].pc = "done"
    /\ \E r \in DOMAIN regens : regens[r].pid = IdName(1) /\ regens[r].pc = "done"

RECURSIVE Contains(_, _)
\* part stands in text as a run of consecutive tokens
Contains(text, part) ==
    IF Len(text) < Len(part) THEN FALSE
    ELSE SubSeq(text, 1, Len(part)) = part \/ Contains(Tail(text), part)

\* C18: while a worker started by regenerate_blog is inside a completion
\* call, the article stored for the session (the edited text the request
\* brought) is part of what the prompt was given.  The worker never reads
\* the article key: previous_text is its own full_blog, empty at the start.
C18_EditedArticleIsInput ==
    \A t \in DOMAIN drafts :
        ( /\ drafts[t].started_by = "regenerate_blog"
          /\ drafts[t].pc = "call"
          /\ ArticleOf(drafts[t].pid) \in EditedArticles )
            => Contains(drafts[t].full_blog, ArticleOf(drafts[t].pid))

(***************************************************************************)
(* One browser that submits projects one after another, resets and asks    *)
(* for drafts while the worker of its previous submission is running.      *)
(***************************************************************************)
\* the submissions the browser may make
MaxRotations == 2

\* the workers of every identifier but the latest have come to their end
EarlierIdle == \A n \in 1..(uuids - 1) : Idle(IdName(n))

RotationNext ==
    \/ EarlierIdle /\ SubmitProject("b1", {"url"}, SysTrees, MaxRotations, MaxRotations)
    \/ Idle(ProgressIdOf(session["b1"]))
          /\ GenerateFinalBlog("b1", GoodOutlines, 1)
    \/ ProgressIdOf(session["b1"]) # NoId /\ Reset("b1")
    \/ \E t \in DOMAIN projects : ProjectStartUploaded(t)
    \/ \E t \in DOMAIN projects : ProjectTree(t)
    \/ \E t \in DOMAIN projects : ProjectRoles(t)
    \/ \E t \in DOMAIN projects : ProjectFile(t)
    \/ \E t \in DOMAIN projects : ProjectDetail(t)
    \/ \E t \in DOMAIN projects : ProjectWrap(t)
    \/ \E t \in DOMAIN projects : ProjectPutTree(t)
    \/ \E t \in DOMAIN projects : ProjectPutRoles(t)
    \/ \E t \in DOMAIN projects : ProjectPutAnalysis(t)
    \/ \E t \in DOMAIN projects : ProjectPutFiles(t)
    \/ \E t \in DOMAIN projects : ProjectOutline(t)
    \/ \E t \in DOMAIN projects : ProjectOutlineReturned(t, GoodOutlines)
    \/ \E t \in DOMAIN projects : ProjectOutlinePut(t)
    \/ \E t \in DOMAIN projects : ProjectOutlineDone(t)
    \/ \E t \in DOMAIN drafts : DraftStart(t)
    \/ \E t \in DOMAIN drafts : DraftLoaded(t)
    \/ \E t \in DOMAIN drafts : DraftChapterDone(t, SysChunks, 1)
    \/ \E t \in DOMAIN drafts : DraftPut(t)
    \/ \E t \in DOMAIN drafts : DraftFinal(t)

SpecRotation == Init /\ [][RotationNext]_vars

\* the identifier the browser's cookie holds
Current(b) == ProgressIdOf(session[b])

\* the step leaves every lookup under the browser's identifier as it was
KeepsLookups(b) ==
    Current(b) # NoId => Lookups(Current(b))' = Lookups(Current(b))

\* C19: every accepted submission gives the browser an identifier that was
\* never issued before, every reset leaves it without one, and a step of a
\* worker whose identifier is not the one the browser holds now changes no
\* lookup under the identifier the browser holds now.
C19_IdentifierRotates ==
    [][ /\ \A b \in Browsers :
            SubmitProject(b, {"url"}, SysTrees, MaxRotations, MaxRotations)
                => /\ Current(b)' # NoId
                   /\ Current(b)' \notin {IdName(n) : n \in 1..uuids}
                   /\ \A t \in DOMAIN projects : projects[t].pid # Current(b)'
                   /\ \A t \in DOMAIN drafts : drafts[t].pid # Current(b)'
        /\ \A b \in Browsers : Reset(b) => Current(b)' = NoId
        /\ \A b \in Browsers : \A t \in DOMAIN projects :
            (projects'[t] # projects[t] /\ projects[t].pid # Current(b))
                => KeepsLookups(b)
        /\ \A b \in Browsers : \A t \in DOMAIN drafts :
            (drafts'[t] # drafts[t] /\ drafts[t].pid # Current(b))
                => KeepsLookups(b)
      ]_vars

\* one browser has submitted twice, the worker of its first submission has
\* stored artifacts and is still running, and the cookie holds the second
\* identifier
C19_Witness ==
    /\ uuids = 2
    /\ was_reset = {}
    /\ Current("b1") = IdName(2)
    /\ \E t \in DOMAIN projects :
        /\ projects[t].pid = IdName(1)
        /\ projects[t].pc = "put_roles"
        /\ Key(IdName(1), "_tree") \in DOMAIN result_store

\* the request handlers that are inside a completion call they issued
\* themselves: generate_final_blog with regenerate_outline=true runs
\* process_outline_regeneration in the handler, before its acknowledgement
Awaiting == {r \in DOMAIN regens : regens[r].pc = "call"}

\* C20: no generation-triggering request (submission, outline regeneration,
\* drafting, re-drafting) issues a completion call and waits for it inside
\* its handler; the acknowledgement is returned first.
C20_HandlersNeverAwait == Awaiting = {}

\* the submission under the identifier was refused: no folder part and no
\* URL, so no analysis thread was started for it
Rejected(progress_id) ==
    /\ progress_id \in {IdName(n) : n \in 1..uuids}
    /\ \A t \in DOMAIN projects : projects[t].pid # progress_id

\* the analysis thread of the identifier ended at the failed clone
CloneFailed(progress_id) ==
    \E t \in DOMAIN projects :
        /\ projects[t].pid = progress_id
        /\ projects[t].pc = "done"
        /\ projects[t].dir = <<>>

\* C21: when the corpus could not be acquired (the submission was refused
\* for want of files and URL, or the clone failed), the session's progress
\* history holds a line that records the failure and no artifact key of the
\* session is stored.  The refused submission leaves only "processing
\* starts" in the history.
C21_AcquisitionFailureIsLogged ==
    \A n \in 1..uuids :
        ( /\ IdName(n) \notin was_reset
          /\ Rejected(IdName(n)) \/ CloneFailed(IdName(n)) )
            => /\ Logged(IdName(n), ErrorKinds)
               /\ \A x \in Suffixes : Key(IdName(n), x) \notin DOMAIN result_store

\* the file of the tree a section of the corpus is headed with
FileOfSection(dir, section) == CHOOSE k \in DOMAIN dir : dir[k].path = section[2]

\* a plain-text file: allowed extension, within the size ceiling
PlainText(file) ==
    file.ext \notin DISALLOWED_EXTENSIONS /\ file.size <= MAX_FILE_SIZE

\* C22: the corpus read_project_files returns has no section for a file with
\* a disallowed extension, of more than 20 MiB or of more than 20,000
\* characters, and for three plain-text files of which one is over the
\* length ceiling it has exactly two sections.
C22_CorpusExcludes ==
    \A t \in DOMAIN projects :
        LET p == projects[t]
            corpus == p.project_files_content
        IN  PastFiles(p) /\ p.pc # "wrap" =>
              /\ \A k \in DOMAIN corpus :
                    /\ \E f \in DOMAIN p.dir : p.dir[f].path = corpus[k][2]
                    /\ LET file == p.dir[FileOfSection(p.dir, corpus[k])]
                       IN  /\ file.ext \notin DISALLOWED_EXTENSIONS
                           /\ file.size <= MAX_FILE_SIZE
                           /\ file.length <= MAX_FILE_LENGTH
              /\ ( /\ Len(p.dir) = 3
                   /\ \A f \in DOMAIN p.dir : PlainText(p.dir[f])
                   /\ Cardinality({f \in DOMAIN p.dir :
                                      p.dir[f].length > MAX_FILE_LENGTH}) = 1 )
                    => Len(corpus) = 2

\* three plain-text files, one over the length ceiling, and the corpus read
C22_Witness ==
    \E t \in DOMAIN projects :
        LET p == projects[t]
        IN  /\ p.pc = "put_files"
            /\ Len(p.dir) = 3
            /\ \A f \in DOMAIN p.dir : PlainText(p.dir[f])
            /\ Cardinality({f \in DOMAIN p.dir : p.dir[f].length > MAX_FILE_LENGTH}) = 1
            /\ Len(p.project_files_content) = 2

\* C23: the files process_project sends to the per-file analysis call are
\* the files read_project_files puts into the corpus: same paths, same
\* order.  The file loop excludes by directory and extension only.
C23_AnalysedAreCorpusFiles ==
    \A t \in DOMAIN projects :
        LET p == projects[t]
        IN  PastFiles(p) /\ p.pc # "wrap" =>
              [k \in DOMAIN p.all_files |-> p.all_files[k].path]
                = [k \in DOMAIN p.project_files_content |->
                        p.project_files_content[k][2]]

\* text ends with the tokens of tail
EndsWith(text, tail) ==
    /\ Len(text) >= Len(tail)
    /\ SubSeq(text, Len(text) - Len(tail) + 1, Len(text)) = tail

\* C24: the text get_full_blog returns ends with the sentinel only when
\* exactly max_iterations continuation calls were issued, and then the last
\* generation stands at its end unmodified, sentinel included; after fewer
\* calls the returned text has no trailing sentinel.
C24_SentinelOnlyAfterExhaustion ==
    gfb.pc = "done" =>
        /\ HasMarker(gfb.full_blog, TRUE) =>
              /\ gfb.i = gfb.max_iterations
              /\ Len(gfb.gens) = gfb.max_iterations + 1
              /\ EndsWith(gfb.full_blog, Last(gfb.gens))
        /\ gfb.i < gfb.max_iterations => ~HasMarker(gfb.full_blog, TRUE)

\* two rounds were allowed and made, the first chunk was spliced onto the
\* initial text, and the returned text still ends with the sentinel
C24_Witness ==
    /\ gfb.pc = "done"
    /\ gfb.max_iterations = 2
    /\ gfb.i = 2
    /\ HasMarker(gfb.full_blog, TRUE)
    /\ Len(gfb.full_blog) > Len(Last(gfb.gens))

\* C25: a continuation request of the chapter loop is given the whole text
\* accumulated so far, the chunks already received for the chapter being
\* continued included.  The prompt's previous_text is full_blog, which
\* gains a chapter only when the chapter is complete.
C25_ContinuationGetsChapterText ==
    \A t \in DOMAIN drafts :
        (drafts[t].pc = "call" /\ drafts[t].chapter_text_acc # <<>>)
            => Contains(drafts[t].full_blog, drafts[t].chapter_text_acc)

\* C26: on every text a chapter has accumulated, continue_pattern of the
\* chapter loop and marker_pattern of get_full_blog decide alike whether it
\* is truncated, and cut the same.  continue_pattern allows nothing but
\* white space after the sentinel, so the loop takes a chapter that ends
\* with the sentinel and a closing fence for complete.
C26_SameTruncationDecision ==
    \A t \in DOMAIN drafts :
        LET acc == drafts[t].chapter_text_acc
        IN  /\ HasMarker(acc, FALSE) = HasMarker(acc, TRUE)
            /\ StripMarker(acc, FALSE) = StripMarker(acc, TRUE)

(***************************************************************************)
(* progress_stream (src/app.py 572-592).  The response holds the            *)
(* progress_id its request's cookie carried; every three seconds it emits   *)
(* the current status and history, and it ends after emitting a status      *)
(* that holds one of the two completion messages.  seen is the status       *)
(* emitted last.                                                            *)
(***************************************************************************)
\* the streams that may be opened
MaxStreams == 1

\* the statuses event_stream breaks on
TerminalKinds == {"final blog completed", "blog outline completed"}

\* a GET of /progress_stream by a browser whose cookie holds an identifier
StreamOpen(b, max_streams) ==
    /\ ProgressIdOf(session[b]) # NoId
    /\ Len(streams) < max_streams
    /\ streams' = Append(streams, [pid |-> ProgressIdOf(session[b]), pc |-> "open",
                                   seen |-> <<>>])
    /\ UNCHANGED <<progress_history, progress_status, result_store, session, uuids,
                   projects, drafts, regens, was_reset, gfb, writers>>

\* one round of event_stream: the status is read and emitted, and the loop
\* is left when it is a completion message
StreamPoll(k) ==
    LET current_status ==
            Get(progress_status, streams[k].pid, Msg("processing not started"))
    IN  /\ streams[k].pc = "open"
        /\ streams' = [streams EXCEPT
               ![k].seen = current_status,
               ![k].pc = IF current_status[1] \in TerminalKinds THEN "closed" ELSE "open"]
        /\ UNCHANGED <<progress_history, progress_status, result_store, session, uuids,
                       projects, drafts, regens, was_reset, gfb, writers>>

(***************************************************************************)
(* One browser submits a project, may ask for a draft, and watches the     *)
(* progress stream.  Threads that can take a step do, and an open stream   *)
(* goes on polling.                                                        *)
(***************************************************************************)
WorkerSteps ==
    \/ \E t \in DOMAIN projects : ProjectStartUploaded(t)
    \/ \E t \in DOMAIN projects : ProjectStartClone(t)
    \/ \E t \in DOMAIN projects : ProjectCloned(t, SysTrees)
    \/ \E t \in DOMAIN projects : ProjectCloneFails(t)
    \/ \E t \in DOMAIN projects : ProjectTree(t)
    \/ \E t \in DOMAIN projects : ProjectRoles(t)
    \/ \E t \in DOMAIN projects : ProjectCallRaises(t)
    \/ \E t \in DOMAIN projects : ProjectFile(t)
    \/ \E t \in DOMAIN projects : ProjectDetail(t)
    \/ \E t \in DOMAIN projects : ProjectDetailFails(t)
    \/ \E t \in DOMAIN projects : ProjectWrap(t)
    \/ \E t \in DOMAIN projects : ProjectPutTree(t)
    \/ \E t \in DOMAIN projects : ProjectPutRoles(t)
    \/ \E t \in DOMAIN projects : ProjectPutAnalysis(t)
    \/ \E t \in DOMAIN projects : ProjectPutFiles(t)
    \/ \E t \in DOMAIN projects : ProjectOutline(t)
    \/ \E t \in DOMAIN projects : ProjectOutlineReturned(t, GoodOutlines)
    \/ \E t \in DOMAIN projects : ProjectOutlinePut(t)
    \/ \E t \in DOMAIN projects : ProjectOutlineDone(t)
    \/ \E t \in DOMAIN drafts : DraftStart(t)
    \/ \E t \in DOMAIN drafts : DraftParseFails(t)
    \/ \E t \in DOMAIN drafts : DraftLoadCrashes(t)
    \/ \E t \in DOMAIN drafts : DraftNoChapters(t)
    \/ \E t \in DOMAIN drafts : DraftLoaded(t)
    \/ \E t \in DOMAIN drafts : DraftChapterDone(t, PlainChunks, 1)
    \/ \E t \in DOMAIN drafts : DraftCallRaises(t)
    \/ \E t \in DOMAIN drafts : DraftPut(t)
    \/ \E t \in DOMAIN drafts : DraftFinal(t)

Polls == \E k \in DOMAIN streams : StreamPoll(k)

StreamNext ==
    \/ SubmitProject("b1", Urls, SysTrees \cup {<<>>}, 1, 1)
    \/ Idle(ProgressIdOf(session["b1"])) /\ GenerateFinalBlog("b1", SysOutlines, 1)
    \/ StreamOpen("b1", MaxStreams)
    \/ WorkerSteps
    \/ Polls

SpecStream == Init /\ [][StreamNext]_vars /\ WF_vars(WorkerSteps) /\ WF_vars(Polls)

\* a worker of the identifier was started and every one of them has stopped
Stopped(progress_id) ==
    /\ \E t \in DOMAIN projects : projects[t].pid = progress_id
    /\ \A t \in DOMAIN projects :
          projects[t].pid = progress_id => projects[t].pc = "done"
    /\ \A t \in DOMAIN drafts :
          drafts[t].pid = progress_id => drafts[t].pc \in {"done", "crashed"}

\* C27: once the workers of a session have stopped, by success or by any
\* failure, every open progress stream of the session comes to emit a
\* terminal status and closes.  After a failure the status is the failure
\* line, which is none of the two messages the stream ends on.
C27_StreamCloses ==
    \A k \in 1..MaxStreams :
        (k \in DOMAIN streams /\ streams[k].pc = "open" /\ Stopped(streams[k].pid))
            ~> (k \in DOMAIN streams /\ streams[k].pc = "closed")

\* C28: a session whose current status is the final-article-completed
\* message has an article stored, and one whose current status is the
\* outline-completed message has an outline stored, also when reset runs
\* between a worker's put and its completion message.
C28_CompletedMeansStored ==
    \A progress_id \in DOMAIN progress_status :
        /\ progress_status[progress_id][1] = "final blog completed"
              => Key(progress_id, "") \in DOMAIN result_store
        /\ progress_status[progress_id][1] = "blog outline completed"
              => Key(progress_id, "_outline") \in DOMAIN result_store

(***************************************************************************)
(* Two drafting workers of one session side by side: the browser triggers  *)
(* drafting or re-drafting of a two-chapter outline twice, the second time *)
(* at any moment of the first worker's run, and the completion client      *)
(* answers with either of two texts.                                       *)
(***************************************************************************)
\* the chunks the completion client returns
TwoChunks == { <<"a">>, <<"b">> }

ConcurrentNext ==
    \/ SubmitNothing("b1", 1)
    \/ GenerateFinalBlog("b1", {<<ChapterDoc(2)>>}, 2)
    \/ RegenerateBlog("b1", 2)
    \/ \E t \in DOMAIN drafts : DraftStart(t)
    \/ \E t \in DOMAIN drafts : DraftParseFails(t)
    \/ \E t \in DOMAIN drafts : DraftLoaded(t)
    \/ \E t \in DOMAIN drafts : DraftChapterDone(t, TwoChunks, 2)
    \/ \E t \in DOMAIN drafts : DraftPut(t)
    \/ \E t \in DOMAIN drafts : DraftFinal(t)

SpecConcurrent == Init /\ [][ConcurrentNext]_vars

\* what a drafting worker that has made its put stored
OutputOf(t) ==
    PostProcess(ChaptersInOrder(drafts[t].calls, NumChapters(drafts[t].doc)))

\* the stored article is the whole output of one worker of the session
IsOneOutput(progress_id) ==
    \E t \in DOMAIN drafts :
        /\ drafts[t].pid = progress_id
        /\ Stored(t)
        /\ ArticleOf(progress_id) = OutputOf(t)

\* two drafting workers were started for the session
TwoWorkers(progress_id) ==
    \E t1, t2 \in DOMAIN drafts :
        t1 # t2 /\ drafts[t1].pid = progress_id /\ drafts[t2].pid = progress_id

\* C29 as stated: with two drafting workers of a session, the article stored
\* at any time is the complete output of one of them.  regenerate_blog
\* stores the edited article before it starts its worker.
C29_AsClaimed ==
    \A n \in 1..uuids :
        (TwoWorkers(IdName(n)) /\ Key(IdName(n), "") \in DOMAIN result_store)
            => IsOneOutput(IdName(n))

\* C29: with drafting workers of a session side by side, the article stored
\* at any time is either a text a human submitted or the complete output of
\* one worker, never chapters of different workers.
C29_NoMixedArticle ==
    \A n \in 1..uuids :
        Key(IdName(n), "") \in DOMAIN result_store
            => \/ ArticleOf(IdName(n)) \in EditedArticles
               \/ IsOneOutput(IdName(n))

\* two workers of one session have both stored, their outputs differ in
\* both chapters, and the article is the output of the first
C29_Witness ==
    /\ Len(drafts) = 2
    /\ drafts[1].pid = drafts[2].pid
    /\ Stored(1) /\ Stored(2)
    /\ Len(drafts[1].calls) = 2 /\ Len(drafts[2].calls) = 2
    /\ drafts[1].calls[1].response # drafts[2].calls[1].response
    /\ drafts[1].calls[2].response # drafts[2].calls[2].response
    /\ ArticleOf(drafts[1].pid) = OutputOf(1)

\* no thread is inside update_progress: each is before a call or has
\* returned from its last
NoUpdateInProgress ==
    \A w \in DOMAIN writers : writers[w].pc \in {"check", "done"}

\* C30: whenever no update_progress call of a session is in progress, the
\* session's current status is the last message of its history, for every
\* interleaving of concurrent calls.  The append to the history and the
\* assignment of the status are two statements with no lock around them.
C30_StatusIsLastOfHistory ==
    NoUpdateInProgress =>
        \A progress_id \in DOMAIN progress_status :
            /\ progress_id \in DOMAIN progress_history
            /\ progress_history[progress_id] # <<>>
            /\ Last(progress_history[progress_id]) = progress_status[progress_id]

\* C31: a project submission that is refused because it brought neither
\* files nor a repository URL changes no state: the browser's cookie keeps
\* its progress_id and params, and no history entry, status or store key is
\* created.  index issues the new identifier, puts it and the params into
\* the cookie and writes the first progress line before it looks at what
\* was submitted.
C31_RejectionChangesNothing ==
    [][ \A b \in Browsers :
            SubmitNothing(b, MaxIds)
                => /\ session'[b] = session[b]
                   /\ progress_history' = progress_history
                   /\ progress_status' = progress_status
                   /\ result_store' = result_store
      ]_vars

====
